---- MODULE Spec2Model ----
(***************************************************************************)
(* A model of the FTML package (src/src/ftml): the core tokenizer, parser, *)
(* AST-to-data conversion and serializer of ftml_core.py, the public       *)
(* load/dump of __init__.py, and the schema validator of validator.py.     *)
(*                                                                         *)
(* Text is a sequence of one-character strings.  A Python value is a       *)
(* record [t |-> <python type name>, v |-> <payload>].                     *)
(***************************************************************************)
EXTENDS Integers, Sequences, FiniteSets, TLC

VARIABLES
    pc,         \* position of the caller's script
    source,     \* the document text handed to load
    schemaArg,  \* the schema argument of the public load (<<>> when None)
    validateArg,\* the validate argument of the public load
    loaded,     \* outcome of the first load, or the data the caller built
    dumped,     \* the text produced by dump
    reloaded,   \* outcome of load(dump(...))
    edits,      \* number of changes the caller made to the loaded data
    heap,       \* the Python dict objects the validator works on, by identity
    data,       \* the root dict handed to FTMLValidator.validate (a reference)
    schema,     \* FTMLValidator.schema
    outcome,    \* how the last validate call ended: [status, errors]
    before,     \* the heap before the last validate call
    original,   \* the heap before the first validate call
    runs,       \* number of validate calls made
    svStrict,   \* the strict flag the SchemaValidator was made with
    svSchema,   \* the schema the SchemaValidator was made with
    svData,     \* the data handed to SchemaValidator.validate
    svErrors,   \* the errors SchemaValidator.validate returned
    engineVersion,   \* what get_ftml_version() returns
    checkVersionArg, \* the check_version argument of load
    versionData,     \* the value map parsed of the document handed to load
    gateOutcome,     \* how load ended after the version check
    spTokens,   \* the tokens of the type expression handed to the schema parser
    spResult    \* how parsing the type expression ended: [status, node]

vars == <<pc, source, schemaArg, validateArg, loaded, dumped, reloaded, edits,
          heap, data, schema, outcome, before, original, runs,
          svStrict, svSchema, svData, svErrors,
          engineVersion, checkVersionArg, versionData, gateOutcome,
          spTokens, spResult>>

coreVars == <<source, schemaArg, validateArg, loaded, dumped, reloaded, edits>>
validatorVars == <<heap, data, schema, outcome, before, original, runs>>
schemaValidatorVars == <<svStrict, svSchema, svData, svErrors>>

versionVars == <<engineVersion, checkVersionArg, versionData, gateOutcome>>

schemaParserVars == <<spTokens, spResult>>

(***************************************************************************)
(* Characters                                                              *)
(***************************************************************************)
DQ == "\""
BS == "\\"
NL == "\n"
TAB == "\t"
CR == "\r"
SQ == "'"

Digits == {"0", "1", "2", "3", "4", "5", "6", "7", "8", "9"}

Letters == {"a", "b", "c", "d", "e", "f", "g", "h", "i", "j", "k", "l", "m",
            "n", "o", "p", "q", "r", "s", "t", "u", "v", "w", "x", "y", "z",
            "A", "B", "C", "D", "E", "F", "G", "H", "I", "J", "K", "L", "M",
            "N", "O", "P", "Q", "R", "S", "T", "U", "V", "W", "X", "Y", "Z",
            "_"}

WordChars == Letters \cup Digits

Min(S) == CHOOSE m \in S : \A n \in S : m <= n
Max(S) == CHOOSE m \in S : \A n \in S : m >= n

\* A local variable of a Python function: the value x is computed once and
\* F is the rest of the function, which uses it.
Let(x, F(_)) == F(x)

\* The same with x computed before F is entered.
Strict(x, F(_)) == CHOOSE r \in { F(y) : y \in {x} } : TRUE

\* First index q >= p with t[q] \notin C, or Len(t) + 1.
ScanWhile(t, p, C) ==
    LET stops == {q \in p..Len(t) : t[q] \notin C}
    IN  IF stops = {} THEN Len(t) + 1 ELSE Min(stops)

\* First index q >= p with t[q] \in C, or Len(t) + 1.
ScanUntil(t, p, C) ==
    LET stops == {q \in p..Len(t) : t[q] \in C}
    IN  IF stops = {} THEN Len(t) + 1 ELSE Min(stops)

(***************************************************************************)
(* ftml_core.py, 1) Tokenizer.  Every Match operator gives the index just  *)
(* after the match of its regular expression at p, or 0 when the           *)
(* expression does not match there.                                        *)
(***************************************************************************)
MatchComment(t, p) ==
    IF t[p] = "#" THEN ScanUntil(t, p + 1, {NL}) ELSE 0

RECURSIVE StringBody(_, _)
StringBody(t, q) ==
    IF q > Len(t) THEN 0
    ELSE IF t[q] = DQ THEN q + 1
    ELSE IF t[q] = BS
         THEN IF q + 1 <= Len(t) /\ t[q + 1] # NL THEN StringBody(t, q + 2) ELSE 0
    ELSE StringBody(t, q + 1)

MatchString(t, p) ==
    IF t[p] = DQ THEN StringBody(t, p + 1) ELSE 0

\* lastPair is the position of the last doubled quote consumed: when no
\* closing quote follows, the expression backtracks and closes there.
RECURSIVE SingleBody(_, _, _)
SingleBody(t, q, lastPair) ==
    IF q > Len(t) THEN (IF lastPair = 0 THEN 0 ELSE lastPair + 1)
    ELSE IF t[q] = SQ
         THEN IF q + 1 <= Len(t) /\ t[q + 1] = SQ
              THEN SingleBody(t, q + 2, q)
              ELSE q + 1
    ELSE SingleBody(t, q + 1, lastPair)

MatchSingleString(t, p) ==
    IF t[p] = SQ THEN SingleBody(t, p + 1, 0) ELSE 0

MatchInt(t, p) ==
    LET s == IF t[p] \in {"+", "-"} THEN p + 1 ELSE p
        e == ScanWhile(t, s, Digits)
    IN  IF e > s THEN e ELSE 0

MatchFloat(t, p) ==
    LET s  == IF t[p] \in {"+", "-"} THEN p + 1 ELSE p
        e1 == ScanWhile(t, s, Digits)
        e2 == ScanWhile(t, e1 + 1, Digits)
    IN  IF e1 > s /\ e1 <= Len(t) /\ t[e1] = "." /\ e2 > e1 + 1 THEN e2 ELSE 0

\* \bword\b
MatchWord(t, p, w) ==
    LET e == p + Len(w)
    IN  IF /\ e - 1 <= Len(t)
           /\ SubSeq(t, p, e - 1) = w
           /\ (p = 1 \/ t[p - 1] \notin WordChars)
           /\ (e > Len(t) \/ t[e] \notin WordChars)
        THEN e ELSE 0

MatchBool(t, p) ==
    Max({MatchWord(t, p, <<"t", "r", "u", "e">>),
         MatchWord(t, p, <<"f", "a", "l", "s", "e">>)})

MatchNull(t, p) == MatchWord(t, p, <<"n", "u", "l", "l">>)

MatchChar(t, p, c) == IF t[p] = c THEN p + 1 ELSE 0

MatchIdent(t, p) ==
    IF t[p] \in Letters THEN ScanWhile(t, p + 1, WordChars) ELSE 0

MatchWhitespace(t, p) ==
    LET e == ScanWhile(t, p, {" ", TAB, CR}) IN IF e > p THEN e ELSE 0

\* The token types in the order of FTMLTokenizer.TOKEN_REGEX.
TOKEN_REGEX ==
    <<"COMMENT", "STRING", "SINGLE_STRING", "FLOAT", "INT", "BOOL", "NULL",
      "LBRACE", "RBRACE", "LBRACKET", "RBRACKET", "EQUAL", "COMMA", "COLON",
      "IDENT", "WHITESPACE", "NEWLINE">>

MatchEnd(ttype, t, p) ==
    CASE ttype = "COMMENT"       -> MatchComment(t, p)
      [] ttype = "STRING"        -> MatchString(t, p)
      [] ttype = "SINGLE_STRING" -> MatchSingleString(t, p)
      [] ttype = "FLOAT"         -> MatchFloat(t, p)
      [] ttype = "INT"           -> MatchInt(t, p)
      [] ttype = "BOOL"          -> MatchBool(t, p)
      [] ttype = "NULL"          -> MatchNull(t, p)
      [] ttype = "LBRACE"        -> MatchChar(t, p, "{")
      [] ttype = "RBRACE"        -> MatchChar(t, p, "}")
      [] ttype = "LBRACKET"      -> MatchChar(t, p, "[")
      [] ttype = "RBRACKET"      -> MatchChar(t, p, "]")
      [] ttype = "EQUAL"         -> MatchChar(t, p, "=")
      [] ttype = "COMMA"         -> MatchChar(t, p, ",")
      [] ttype = "COLON"         -> MatchChar(t, p, ":")
      [] ttype = "IDENT"         -> MatchIdent(t, p)
      [] ttype = "WHITESPACE"    -> MatchWhitespace(t, p)
      [] ttype = "NEWLINE"       -> MatchChar(t, p, NL)

\* The longest match at p, the earliest pattern winning a tie; ttype is
\* "none" when nothing matches.
_match(t, p) ==
    Let([i \in 1..Len(TOKEN_REGEX) |-> MatchEnd(TOKEN_REGEX[i], t, p)], LAMBDA ends :
    Let(Max({ends[i] : i \in 1..Len(TOKEN_REGEX)}), LAMBDA best :
    Let(Min({i \in 1..Len(TOKEN_REGEX) : ends[i] = best}), LAMBDA first :
        IF best = 0
        THEN [ttype |-> "none", end |-> p]
        ELSE [ttype |-> TOKEN_REGEX[first], end |-> best])))

(***************************************************************************)
(* Python values                                                           *)
(***************************************************************************)
StrV(s)   == [t |-> "str", v |-> s]
IntV(n)   == [t |-> "int", v |-> n]
BoolV(b)  == [t |-> "bool", v |-> b]
NoneV     == [t |-> "NoneType", v |-> 0]
\* A float written with a few decimal digits: sign, integer part and the
\* fraction digits without trailing zeros.  No arithmetic is done on floats.
FloatV(neg, ip, fr) == [t |-> "float", v |-> <<neg, ip, fr>>]
ListV(elems) == [t |-> "list", v |-> elems]
\* A dict as a value: its entries [k |-> key, v |-> value] in insertion order.
DictV(entries) == [t |-> "dict", v |-> entries]

DigitValue(c) ==
    CASE c = "0" -> 0 [] c = "1" -> 1 [] c = "2" -> 2 [] c = "3" -> 3
      [] c = "4" -> 4 [] c = "5" -> 5 [] c = "6" -> 6 [] c = "7" -> 7
      [] c = "8" -> 8 [] c = "9" -> 9

DigitChar(n) ==
    CASE n = 0 -> "0" [] n = 1 -> "1" [] n = 2 -> "2" [] n = 3 -> "3"
      [] n = 4 -> "4" [] n = 5 -> "5" [] n = 6 -> "6" [] n = 7 -> "7"
      [] n = 8 -> "8" [] n = 9 -> "9"

RECURSIVE DigitsToNat(_)
DigitsToNat(ds) ==
    IF ds = <<>> THEN 0
    ELSE 10 * DigitsToNat(SubSeq(ds, 1, Len(ds) - 1)) + DigitValue(ds[Len(ds)])

RECURSIVE NatToDigits(_)
NatToDigits(n) ==
    IF n < 10 THEN <<DigitChar(n)>>
    ELSE Append(NatToDigits(n \div 10), DigitChar(n % 10))

Unsigned(s) == IF s[1] \in {"+", "-"} THEN Tail(s) ELSE s

\* int(token_str)
IntOf(s) ==
    IF s[1] = "-" THEN 0 - DigitsToNat(Tail(s)) ELSE DigitsToNat(Unsigned(s))

RECURSIVE StripTrailingZeros(_)
StripTrailingZeros(ds) ==
    IF ds # <<>> /\ ds[Len(ds)] = "0"
    THEN StripTrailingZeros(SubSeq(ds, 1, Len(ds) - 1))
    ELSE ds

\* float(token_str)
FloatOf(s) ==
    LET u   == Unsigned(s)
        dot == Min({i \in 1..Len(u) : u[i] = "."})
    IN  FloatV(s[1] = "-",
               DigitsToNat(SubSeq(u, 1, dot - 1)),
               StripTrailingZeros(SubSeq(u, dot + 1, Len(u))))

\* str.replace(old, new): the occurrences of old, left to right, not overlapping.
RECURSIVE Replace(_, _, _)
Replace(s, old, new) ==
    IF Len(s) < Len(old) THEN s
    ELSE IF SubSeq(s, 1, Len(old)) = old
         THEN new \o Replace(SubSeq(s, Len(old) + 1, Len(s)), old, new)
    ELSE <<s[1]>> \o Replace(Tail(s), old, new)

_interpret_single_quoted(raw) ==
    LET inner == SubSeq(raw, 2, Len(raw) - 1)
    IN  Replace(inner, <<SQ, SQ>>, <<SQ>>)

_interpret_double_quoted(raw) ==
    LET inner == SubSeq(raw, 2, Len(raw) - 1)
        r1 == Replace(inner, <<BS, DQ>>, <<DQ>>)
        r2 == Replace(r1, <<BS, BS>>, <<BS>>)
        r3 == Replace(r2, <<BS, "n">>, <<NL>>)
    IN  Replace(r3, <<BS, "t">>, <<TAB>>)

Token(ttype, value) == [type |-> ttype, value |-> value]

EOFToken == Token("EOF", NoneV)

\* The value next_token gives a token of type ttype with text token_str.
\* The line and column of a token only appear in error messages and are
\* left out.
TokenValue(ttype, token_str) ==
    CASE ttype = "SINGLE_STRING" -> StrV(_interpret_single_quoted(token_str))
      [] ttype = "STRING"        -> StrV(_interpret_double_quoted(token_str))
      [] ttype = "INT"           -> IntV(IntOf(token_str))
      [] ttype = "FLOAT"         -> FloatOf(token_str)
      [] ttype = "BOOL"          -> BoolV(token_str = <<"t", "r", "u", "e">>)
      [] ttype = "NULL"          -> NoneV
      [] OTHER                   -> StrV(token_str)

\* next_token leaving the position where it was after a whitespace token.
next_token_in_place(t, p) ==
    IF p > Len(t)
    THEN [err |-> FALSE, token |-> EOFToken, pos |-> p]
    ELSE Let(_match(t, p), LAMBDA result :
             IF result.ttype = "none"
             THEN [err |-> TRUE, token |-> EOFToken, pos |-> p]
             ELSE [err |-> FALSE,
                   token |-> Token(result.ttype,
                                   TokenValue(result.ttype,
                                              SubSeq(t, p, result.end - 1))),
                   pos |-> IF result.ttype = "WHITESPACE" THEN p ELSE result.end])

\* next_token at position p: the token and the position after it; err when
\* no pattern matches (ValueError "Lex error").
next_token(t, p) ==
    IF p > Len(t)
    THEN [err |-> FALSE, token |-> EOFToken, pos |-> p]
    ELSE Let(_match(t, p), LAMBDA result :
             IF result.ttype = "none"
             THEN [err |-> TRUE, token |-> EOFToken, pos |-> p]
             ELSE [err |-> FALSE,
                   token |-> Token(result.ttype,
                                   TokenValue(result.ttype,
                                              SubSeq(t, p, result.end - 1))),
                   pos |-> result.end])

\* One pass of the while loop of tokenize; s is the loop's state: the
\* position of the tokenizer, the tokens so far, done after EOF or an error.
tokenize_pass(t, s) ==
    IF s.done THEN s
    ELSE Let(next_token(t, s.pos), LAMBDA r :
             IF r.err THEN [s EXCEPT !.err = TRUE, !.done = TRUE]
             ELSE IF r.token.type = "EOF"
                  THEN [s EXCEPT !.done = TRUE, !.tokens = Append(@, r.token)]
             ELSE IF r.token.type # "WHITESPACE"
                  THEN [s EXCEPT !.pos = r.pos, !.tokens = Append(@, r.token)]
             ELSE [s EXCEPT !.pos = r.pos])

\* n passes of the loop, the first half of them before the second half.
RECURSIVE tokenize_passes(_, _, _)
tokenize_passes(t, s, n) ==
    IF n <= 1 THEN tokenize_pass(t, s)
    ELSE Strict(tokenize_passes(t, s, n \div 2),
                LAMBDA half : tokenize_passes(t, half, n - n \div 2))

\* tokenize: every token but WHITESPACE, EOF last.  A pass before EOF
\* consumes a character at least, so Len(t) + 1 passes end the loop.
tokenize(t) ==
    Let(tokenize_passes(t, [err |-> FALSE, done |-> FALSE, pos |-> 1, tokens |-> <<>>],
                        Len(t) + 1),
        LAMBDA s : [err |-> s.err, tokens |-> s.tokens])

(***************************************************************************)
(* ftml_core.py, 2) AST nodes.  Every node carries the comment slots of    *)
(* class Node.                                                             *)
(***************************************************************************)
ScalarNode(value) ==
    [kind |-> "ScalarNode", value |-> value,
     leading_comments |-> <<>>, inline_comment |-> NoneV, trailing_comments |-> <<>>]

KeyValueNode(key, value_node) ==
    [kind |-> "KeyValueNode", key |-> key, value_node |-> value_node,
     leading_comments |-> <<>>, inline_comment |-> NoneV, trailing_comments |-> <<>>]

ObjectNode(items) ==
    [kind |-> "ObjectNode", items |-> items,
     leading_comments |-> <<>>, inline_comment |-> NoneV, trailing_comments |-> <<>>]

ListNode(elements) ==
    [kind |-> "ListNode", elements |-> elements,
     leading_comments |-> <<>>, inline_comment |-> NoneV, trailing_comments |-> <<>>]

DocumentNode(node) ==
    [kind |-> "DocumentNode", data |-> node,
     leading_comments |-> <<>>, inline_comment |-> NoneV, trailing_comments |-> <<>>]

(***************************************************************************)
(* ftml_core.py, 3) Parser.  A parse operator gives [err, node, pos]: the  *)
(* node parsed and the parser position after it, or err when the code      *)
(* raises ParserError.  Positions count from 1.                            *)
(***************************************************************************)
peek(tokens, pos) == IF pos <= Len(tokens) THEN tokens[pos] ELSE EOFToken

ParserError(pos) == [err |-> TRUE, node |-> ScalarNode(NoneV), pos |-> pos]
Parsed(node, pos) == [err |-> FALSE, node |-> node, pos |-> pos]

PyWhitespace == {" ", TAB, NL, CR, "\f"}

RECURSIVE lstrip(_, _)
lstrip(s, chars) ==
    IF s # <<>> /\ s[1] \in chars THEN lstrip(Tail(s), chars) ELSE s

RECURSIVE rstrip(_, _)
rstrip(s, chars) ==
    IF s # <<>> /\ s[Len(s)] \in chars
    THEN rstrip(SubSeq(s, 1, Len(s) - 1), chars)
    ELSE s

strip(s) == rstrip(lstrip(s, PyWhitespace), PyWhitespace)

\* tk.value.lstrip('#').strip()
CommentText(tk) == strip(lstrip(tk.value.v, {"#"}))

RECURSIVE _skip_nonsemantic(_, _)
_skip_nonsemantic(tokens, pos) ==
    IF peek(tokens, pos).type \in {"NEWLINE", "WHITESPACE", "COMMENT"}
    THEN _skip_nonsemantic(tokens, pos + 1)
    ELSE pos

\* The comment written into the inline slot and into the trailing slot.
GatherInlineTwice(tokens, pos, node) ==
    IF peek(tokens, pos).type = "COMMENT"
    THEN Parsed([node EXCEPT !.inline_comment = StrV(CommentText(peek(tokens, pos))),
                             !.trailing_comments = <<CommentText(peek(tokens, pos))>>],
                pos + 1)
    ELSE Parsed(node, pos)

\* Gives the node with its inline comment set and the position after it.
_maybe_gather_inline_comment(tokens, pos, node) ==
    IF peek(tokens, pos).type = "COMMENT"
    THEN Parsed([node EXCEPT !.inline_comment = StrV(CommentText(peek(tokens, pos)))],
                pos + 1)
    ELSE Parsed(node, pos)

RECURSIVE parse_value(_, _)
RECURSIVE parse_object_loop(_, _, _)
RECURSIVE parse_key_value(_, _)
RECURSIVE parse_list_loop(_, _, _)
RECURSIVE parse_scalar(_, _)

parse_scalar(tokens, pos) ==
    LET tk == peek(tokens, pos)
    IN  IF tk.type = "COMMENT"
        THEN LET scalar == parse_scalar(tokens, pos + 1)
             IN  IF scalar.err THEN scalar
                 ELSE Parsed([scalar.node EXCEPT !.leading_comments =
                                  <<CommentText(tk)>> \o @],
                             scalar.pos)
        ELSE IF tk.type \in {"STRING", "SINGLE_STRING", "INT", "FLOAT", "BOOL"}
             THEN Parsed(ScalarNode(tk.value), pos + 1)
        ELSE IF tk.type = "NULL"
             THEN Parsed(ScalarNode(NoneV), pos + 1)
        ELSE ParserError(pos + 1)

\* The body of the while loop of parse_object, items being node.items so far.
parse_object_loop(tokens, pos, items) ==
    LET p1 == _skip_nonsemantic(tokens, pos)
        tk == peek(tokens, p1)
    IN  IF tk.type = "RBRACE" THEN Parsed(ObjectNode(items), p1 + 1)
        ELSE IF tk.type = "EOF" THEN ParserError(p1)
        ELSE Let(parse_key_value(tokens, p1), LAMBDA kv :
                 IF kv.err THEN kv
                 ELSE LET p2 == _skip_nonsemantic(tokens, kv.pos)
                      IN  IF peek(tokens, p2).type = "COMMA"
                          THEN parse_object_loop(tokens, p2 + 1, Append(items, kv.node))
                          ELSE parse_object_loop(tokens, p2, Append(items, kv.node)))

parse_object(tokens, pos) == parse_object_loop(tokens, pos + 1, <<>>)

parse_key_value(tokens, pos) ==
    LET tk == peek(tokens, pos)
    IN  IF tk.type \notin {"IDENT", "STRING"} THEN ParserError(pos)
        ELSE LET key_str == tk.value.v
                 p1 == _skip_nonsemantic(tokens, pos + 1)
             IN  IF peek(tokens, p1).type # "EQUAL" THEN ParserError(p1)
                 ELSE Let(parse_value(tokens, _skip_nonsemantic(tokens, p1 + 1)),
                          LAMBDA value_node :
                          IF value_node.err THEN value_node
                          ELSE _maybe_gather_inline_comment(
                                   tokens, value_node.pos,
                                   KeyValueNode(key_str, value_node.node)))

\* The body of the while loop of parse_list.
parse_list_loop(tokens, pos, elements) ==
    LET p1 == _skip_nonsemantic(tokens, pos)
        tk == peek(tokens, p1)
    IN  IF tk.type = "RBRACKET" THEN Parsed(ListNode(elements), p1 + 1)
        ELSE IF tk.type = "EOF" THEN ParserError(p1)
        ELSE Let(parse_value(tokens, p1), LAMBDA elem :
                 IF elem.err THEN elem
                 ELSE LET p2 == _skip_nonsemantic(tokens, elem.pos)
                      IN  IF peek(tokens, p2).type = "COMMA"
                          THEN parse_list_loop(tokens, p2 + 1, Append(elements, elem.node))
                          ELSE parse_list_loop(tokens, p2, Append(elements, elem.node)))

parse_list(tokens, pos) == parse_list_loop(tokens, pos + 1, <<>>)

parse_value(tokens, pos) ==
    LET tk == peek(tokens, pos)
    IN  IF tk.type = "LBRACE" THEN parse_object(tokens, pos)
        ELSE IF tk.type = "LBRACKET" THEN parse_list(tokens, pos)
        ELSE IF tk.type \in {"INT", "FLOAT", "STRING", "SINGLE_STRING",
                             "BOOL", "NULL", "IDENT", "COMMENT"}
             THEN parse_scalar(tokens, pos)
        ELSE ParserError(pos)

\* A document that starts with a key read as the body of an object: the
\* tokens before EOF, closed by a brace.
parse_document_of_pairs(tokens) ==
    IF peek(tokens, 1).type = "IDENT"
    THEN Let(parse_object_loop(SubSeq(tokens, 1, Len(tokens) - 1)
                                 \o <<Token("RBRACE", StrV(<<"}">>)), EOFToken>>,
                               1, <<>>),
             LAMBDA r : IF r.err THEN r ELSE Parsed(DocumentNode(r.node), r.pos))
    ELSE Let(parse_value(tokens, 1), LAMBDA r :
             IF r.err THEN r ELSE Parsed(DocumentNode(r.node), r.pos))

parse_document(tokens) ==
    Let(parse_value(tokens, 1), LAMBDA r :
        IF r.err THEN r ELSE Parsed(DocumentNode(r.node), r.pos))

(***************************************************************************)
(* ftml_core.py, 4) AST to data                                            *)
(***************************************************************************)
HasKey(entries, k) == \E i \in 1..Len(entries) : entries[i].k = k

IndexOfKey(entries, k) == Min({i \in 1..Len(entries) : entries[i].k = k})

GetKey(entries, k) == entries[IndexOfKey(entries, k)].v

\* del d[k] on a Python dict that holds k.
DelKey(entries, k) == SelectSeq(entries, LAMBDA e : e.k # k)

\* The key written at the end, wherever it stood.
MoveKeyToEnd(entries, k, v) ==
    Append(SelectSeq(entries, LAMBDA e : e.k # k), [k |-> k, v |-> v])

\* d[k] = v on a Python dict: an existing key keeps its position.
SetKey(entries, k, v) ==
    IF HasKey(entries, k)
    THEN [entries EXCEPT ![IndexOfKey(entries, k)].v = v]
    ELSE Append(entries, [k |-> k, v |-> v])

RECURSIVE ast_to_data(_)
RECURSIVE ObjectItemsToDict(_, _)
RECURSIVE ElementsToList(_)

\* for kv in node.items: out[kv.key] = ast_to_data(kv.value_node)
ObjectItemsToDict(items, out) ==
    IF items = <<>> THEN out
    ELSE ObjectItemsToDict(Tail(items),
                           SetKey(out, items[1].key, ast_to_data(items[1].value_node)))

ElementsToList(elements) ==
    IF elements = <<>> THEN <<>>
    ELSE <<ast_to_data(elements[1])>> \o ElementsToList(Tail(elements))

ast_to_data(node) ==
    CASE node.kind = "ScalarNode"   -> node.value
      [] node.kind = "ObjectNode"   -> DictV(ObjectItemsToDict(node.items, <<>>))
      [] node.kind = "ListNode"     -> ListV(ElementsToList(node.elements))
      [] node.kind = "DocumentNode" -> ast_to_data(node.data)
      [] OTHER                      -> NoneV

(***************************************************************************)
(* ftml_core.py, 5) Serializer                                             *)
(***************************************************************************)
RECURSIVE data_to_ast(_)
RECURSIVE data_to_ast_items(_)
RECURSIVE data_to_ast_elements(_)

data_to_ast_items(entries) ==
    IF entries = <<>> THEN <<>>
    ELSE <<KeyValueNode(entries[1].k, data_to_ast(entries[1].v))>>
         \o data_to_ast_items(Tail(entries))

data_to_ast_elements(elems) ==
    IF elems = <<>> THEN <<>>
    ELSE <<data_to_ast(elems[1])>> \o data_to_ast_elements(Tail(elems))

data_to_ast(d) ==
    CASE d.t = "dict" -> ObjectNode(data_to_ast_items(d.v))
      [] d.t = "list" -> ListNode(data_to_ast_elements(d.v))
      [] OTHER        -> ScalarNode(d)

\* str(value) for a float
FloatToStr(f) ==
    (IF f[1] THEN <<"-">> ELSE <<>>) \o NatToDigits(f[2]) \o <<".">>
    \o (IF f[3] = <<>> THEN <<"0">> ELSE f[3])

\* str(value) for an int
IntToStr(n) ==
    IF n < 0 THEN <<"-">> \o NatToDigits(0 - n) ELSE NatToDigits(n)

_scalar_to_str(value) ==
    CASE value.t = "NoneType" -> <<"n", "u", "l", "l">>
      [] value.t = "bool" -> IF value.v THEN <<"t", "r", "u", "e">>
                                         ELSE <<"f", "a", "l", "s", "e">>
      [] value.t = "str" -> <<DQ>> \o Replace(value.v, <<DQ>>, <<BS, DQ>>) \o <<DQ>>
      [] value.t = "float" -> FloatToStr(value.v)
      [] OTHER -> IntToStr(value.v)

\* sep.join(lines)
RECURSIVE Join(_, _)
Join(lines, sep) ==
    IF lines = <<>> THEN <<>>
    ELSE IF Len(lines) = 1 THEN lines[1]
    ELSE lines[1] \o sep \o Join(Tail(lines), sep)

RECURSIVE serialize_ast(_)
RECURSIVE ObjectLines(_)
RECURSIVE ListLines(_)

\* f"  {kv.key} = {serialize_ast(kv.value_node, indent + 2)}," for every item
ObjectLines(items) ==
    IF items = <<>> THEN <<>>
    ELSE <<(<<" ", " ">> \o items[1].key \o <<" ", "=", " ">>
            \o serialize_ast(items[1].value_node) \o <<",">>)>>
         \o ObjectLines(Tail(items))

\* f"  {serialize_ast(e, indent + 2)}," for every element
ListLines(elements) ==
    IF elements = <<>> THEN <<>>
    ELSE <<(<<" ", " ">> \o serialize_ast(elements[1]) \o <<",">>)>>
         \o ListLines(Tail(elements))

\* The indent argument of the code never reaches the output and is left out.
serialize_ast(node) ==
    CASE node.kind = "ScalarNode" -> _scalar_to_str(node.value)
      [] node.kind = "ObjectNode" ->
            Join(<<(<<"{">>)>> \o ObjectLines(node.items) \o <<(<<"}">>)>>, <<NL>>)
      [] node.kind = "ListNode" ->
            IF node.elements = <<>> THEN <<"[", "]">>
            ELSE Join(<<(<<"[">>)>> \o ListLines(node.elements) \o <<(<<"]">>)>>, <<NL>>)
      [] node.kind = "DocumentNode" -> serialize_ast(node.data)
      [] OTHER -> <<>>

(***************************************************************************)
(* ftml_core.py, 6) load and dump; __init__.py, the public load and dump   *)
(***************************************************************************)
Outcome(status, value) == [status |-> status, value |-> value]

NotRun == Outcome("none", NoneV)

core_load(ftml_text) ==
    Let(tokenize(ftml_text), LAMBDA lexed :
        IF lexed.err THEN Outcome("ValueError", NoneV)
        ELSE Let(parse_document(lexed.tokens), LAMBDA doc_node :
                 IF doc_node.err THEN Outcome("ParserError", NoneV)
                 ELSE Outcome("ok", ast_to_data(doc_node.node))))

core_dump(d) == serialize_ast(data_to_ast(d))

\* ftml.load(ftml_data, schema, validate).  ftml_data and schema are texts,
\* not paths of existing files.  The validate branch of the code is `pass`.
load(ftml_data, schemaText, validate) ==
    Let(core_load(ftml_data), LAMBDA result :
        IF result.status # "ok" THEN Outcome("FTMLParseError", NoneV)
        ELSE result)

\* ftml.dump(data, schema, validate): the validate branch is `pass`, and
\* _core_dump raises nothing on dicts, lists and scalars.
dump(d, schemaText, validate) == core_dump(d)

(***************************************************************************)
(* validator.py.  The dicts the validator works on are Python objects: it  *)
(* writes defaults into them in place and installs a default by reference. *)
(* heap[id] holds the entries of the dict object id, and a dict value in   *)
(* the heap is the reference [t |-> "dict", v |-> id].  Lists are never    *)
(* written by the validator and stay plain values.                         *)
(*                                                                         *)
(* A schema is a sequence of entries [k |-> key, v |-> schema_def]; a      *)
(* schema_def is [type, has_default, default, optional, has_fields,        *)
(* fields, item_type], has_default and has_fields standing for             *)
(* 'default' in schema_def and 'fields' in schema_def.                     *)
(***************************************************************************)
Ref(id) == [t |-> "dict", v |-> id]

RECURSIVE Deref(_, _)
Deref(h, value) ==
    IF value.t = "dict"
    THEN DictV([i \in 1..Len(h[value.v]) |->
                    [k |-> h[value.v][i].k, v |-> Deref(h, h[value.v][i].v)]])
    ELSE value

T_str   == <<"s", "t", "r">>
T_int   == <<"i", "n", "t">>
T_float == <<"f", "l", "o", "a", "t">>
T_bool  == <<"b", "o", "o", "l">>
T_dict  == <<"d", "i", "c", "t">>
T_list  == <<"l", "i", "s", "t">>
T_null  == <<"n", "u", "l", "l">>

\* s.split(sep) for a one-character separator
RECURSIVE Split(_, _)
Split(s, sep) ==
    LET at == ScanUntil(s, 1, {sep})
    IN  IF at > Len(s) THEN <<s>>
        ELSE <<SubSeq(s, 1, at - 1)>> \o Split(SubSeq(s, at + 1, Len(s)), sep)

StartsWith(s, prefix) ==
    Len(s) >= Len(prefix) /\ SubSeq(s, 1, Len(prefix)) = prefix

\* type_map.get(type_name, object), as the name of the Python class
TypeMapGet(type_name) ==
    CASE type_name = T_str   -> "str"
      [] type_name = T_int   -> "int"
      [] type_name = T_float -> "float"
      [] type_name = T_bool  -> "bool"
      [] type_name = T_dict  -> "dict"
      [] type_name = T_list  -> "list"
      [] type_name = T_null  -> "NoneType"
      [] OTHER               -> "object"

\* isinstance(value, cls): bool is a subclass of int.
IsInstance(value, cls) ==
    \/ cls = "object"
    \/ value.t = cls
    \/ cls = "int" /\ value.t = "bool"

_is_valid_type(value, type_name) ==
    IF type_name = T_null /\ value.t = "NoneType" THEN TRUE
    ELSE IsInstance(value, TypeMapGet(type_name))

\* A raised exception: its class and its message, the message as the fixed
\* text and the values formatted into it.
Message(text, args) == [text |-> text, args |-> args]
NoError == Message("", <<>>)

Check(status, error) == [status |-> status, error |-> error]
CheckOk == Check("ok", NoError)

\* [t.strip() for t in expected_type.split('|')]
UnionTypes(expected_type) ==
    LET parts == Split(expected_type, "|")
    IN  [i \in 1..Len(parts) |-> strip(parts[i])]

\* The test of the union with all() in place of any().
AllValidType(value, types) ==
    \A i \in 1..Len(types) : _is_valid_type(value, types[i])

\* any(self._is_valid_type(value, t, type_map) for t in types)
AnyValidType(value, types) ==
    \E i \in 1..Len(types) : _is_valid_type(value, types[i])

\* expected_type is NoneV or StrV(text).
_check_type(value, expected_type) ==
    IF expected_type.t = "NoneType" THEN CheckOk
    ELSE IF \E i \in 1..Len(expected_type.v) : expected_type.v[i] = "|"
         THEN LET types == UnionTypes(expected_type.v)
              IN  IF ~AnyValidType(value, types)
                  THEN Check("ValidationError",
                             Message("Type mismatch. Expected one of {types}, got {type}",
                                     <<types, value.t>>))
                  ELSE CheckOk
    ELSE IF ~_is_valid_type(value, expected_type.v)
         THEN Check("ValidationError",
                    Message("Type mismatch. Expected {expected_type}, got {type}",
                            <<expected_type.v, value.t>>))
    ELSE CheckOk

\* for item in items: self._check_type(item, item_type), stopping at the
\* first exception
RECURSIVE CheckItems(_, _)
CheckItems(items, item_type) ==
    IF items = <<>> THEN CheckOk
    ELSE LET c == _check_type(items[1], item_type)
         IN  IF c.status # "ok" THEN c ELSE CheckItems(Tail(items), item_type)

\* if item_type: a str item_type is taken when it is not empty
_validate_list(value, schema_def) ==
    IF schema_def.item_type.t = "str" /\ schema_def.item_type.v # <<>>
    THEN CheckItems(value.v, schema_def.item_type)
    ELSE CheckOk

\* Every field taken as optional.
AlwaysOptional(schema_def) ==
    TRUE

\* schema_def.get('optional'), False without the key.
get_optional(schema_def) ==
    schema_def.optional

\* The result of a validating step: the heap it leaves and how it ended.
Step(h, c) == [heap |-> h, status |-> c.status, error |-> c.error]

RECURSIVE _validate_value(_, _, _, _)
RECURSIVE _validate_dict_loop(_, _, _, _)

\* The for loop of _validate_dict over fields, the entries of
\* schema_def['fields'] not yet visited; id is the dict object `value`.
_validate_dict_loop(h, id, schema_def, fields) ==
    IF fields = <<>> THEN Step(h, CheckOk)
    ELSE LET field == fields[1].k
             field_schema == fields[1].v
         IN  IF HasKey(h[id], field)
             THEN LET r == _validate_value(h, field, GetKey(h[id], field), field_schema)
                  IN  IF r.status # "ok" THEN r
                      ELSE _validate_dict_loop(r.heap, id, schema_def, Tail(fields))
             ELSE IF field_schema.has_default
                  THEN _validate_dict_loop(
                           [h EXCEPT ![id] = SetKey(@, field, field_schema.default)],
                           id, schema_def, Tail(fields))
             ELSE IF ~get_optional(field_schema)
                  THEN Step(h, Check("ValidationError",
                                     Message("Missing required field: {field}", <<field>>)))
             ELSE _validate_dict_loop(h, id, schema_def, Tail(fields))

\* value is a dict at every call of the code, so its isinstance check
\* never raises; schema_def.get('fields', {}) is empty without 'fields'.
_validate_dict(h, value, schema_def) ==
    _validate_dict_loop(h, value.v, schema_def,
                        IF schema_def.has_fields THEN schema_def.fields ELSE <<>>)

\* schema_def['type'].startswith(...) on a type that is None raises
\* AttributeError.
_validate_value(h, key, value, schema_def) ==
    IF value.t \in {"dict", "list"} /\ schema_def.type.t = "NoneType"
    THEN Step(h, Check("AttributeError", NoError))
    ELSE IF value.t = "dict" /\ StartsWith(schema_def.type.v, T_dict)
         THEN _validate_dict(h, value, schema_def)
    ELSE IF value.t = "list" /\ StartsWith(schema_def.type.v, T_list)
         THEN Step(h, _validate_list(value, schema_def))
    ELSE Step(h, _check_type(value, schema_def.type))

\* len(items) exists for lists, strings and dicts.
HasLen(value) == value.t \in {"list", "str", "dict"}

PyLen(h, value) == IF value.t = "dict" THEN Len(h[value.v]) ELSE Len(value.v)

\* The items `for item in items` visits: the elements of a list, the
\* characters of a string, the keys of a dict.
PyIter(h, value) ==
    CASE value.t = "list" -> value.v
      [] value.t = "str"  -> [i \in 1..Len(value.v) |-> StrV(<<value.v[i]>>)]
      [] value.t = "dict" -> [i \in 1..Len(h[value.v]) |-> StrV(h[value.v][i].k)]

Multiplicities == {"?", "*", "+"}

\* The multiplicity branch of _validate_field; len() and iteration raise
\* TypeError on a value that has none.
ValidateMultiple(h, clean_key, multiplicity, schema_def, id) ==
    LET items == IF HasKey(h[id], clean_key) THEN GetKey(h[id], clean_key)
                 ELSE ListV(<<>>)
    IN  IF multiplicity \in {"+", "?"} /\ ~HasLen(items)
        THEN Check("TypeError", NoError)
        ELSE IF multiplicity = "+" /\ PyLen(h, items) < 1
             THEN Check("ValidationError",
                        Message("Field {clean_key}+ requires at least one item",
                                <<clean_key>>))
        ELSE IF multiplicity = "?" /\ PyLen(h, items) > 1
             THEN Check("ValidationError",
                        Message("Field {clean_key}? allows maximum one item",
                                <<clean_key>>))
        ELSE IF ~HasLen(items) THEN Check("TypeError", NoError)
        ELSE CheckItems(PyIter(h, items), schema_def.type)

\* The default written without the test "clean_key in data".
OverwriteWithDefault(h, id, clean_key, schema_def) ==
    IF schema_def.has_default
    THEN [h EXCEPT ![id] = SetKey(@, clean_key, schema_def.default)]
    ELSE h

\* The default written, and an empty dict written for an absent field that
\* has fields and no default.
SynthesizeContainer(h, id, clean_key, schema_def) ==
    IF HasKey(h[id], clean_key) THEN h
    ELSE IF schema_def.has_default
         THEN [h EXCEPT ![id] = SetKey(@, clean_key, schema_def.default)]
    ELSE IF schema_def.has_fields
         THEN [Append(h, <<>>) EXCEPT ![id] = SetKey(@, clean_key, Ref(Len(h) + 1))]
    ELSE h

\* The heap after "if clean_key in data ... else: if 'default' in
\* schema_def: data[clean_key] = value".
InjectDefault(h, id, clean_key, schema_def) ==
    IF ~HasKey(h[id], clean_key) /\ schema_def.has_default
    THEN [h EXCEPT ![id] = SetKey(@, clean_key, schema_def.default)]
    ELSE h

\* id is the dict object `data`.
_validate_field(h, key, schema_def, id) ==
    LET clean_key == rstrip(key, Multiplicities)
        multiplicity == IF key[Len(key)] \in Multiplicities THEN key[Len(key)] ELSE ""
    IN  IF multiplicity # ""
        THEN Step(h, ValidateMultiple(h, clean_key, multiplicity, schema_def, id))
        ELSE LET h1 == InjectDefault(h, id, clean_key, schema_def)
             IN  IF ~HasKey(h1[id], clean_key)
                 THEN IF get_optional(schema_def) THEN Step(h1, CheckOk)
                      ELSE Step(h1, Check("ValidationError",
                                          Message("Missing required field: {clean_key}",
                                                  <<clean_key>>)))
                 ELSE LET value == GetKey(h1[id], clean_key)
                      IN  IF schema_def.has_fields
                          THEN IF value.t # "dict"
                               THEN Step(h1, Check("ValidationError",
                                             Message("Expected dict for field {clean_key}, got {type}",
                                                     <<clean_key, value.t>>)))
                               ELSE _validate_dict(h1, value, schema_def)
                          ELSE Step(h1, _check_type(value, schema_def.type))

\* The for loop of validate over the entries of self.schema not yet
\* visited.  _check_duplicate_keys never raises on a dict.
RECURSIVE validate_loop(_, _, _)
validate_loop(h, id, entries) ==
    IF entries = <<>> THEN Step(h, CheckOk)
    ELSE LET r == _validate_field(h, entries[1].k, entries[1].v, id)
         IN  IF r.status # "ok" THEN r
             ELSE validate_loop(r.heap, id, Tail(entries))

\* FTMLValidator(schema_).validate(data_): the heap it leaves, "ok" for
\* return True or the class of the exception, and the exception's message.
validate(h, data_, schema_) == validate_loop(h, data_.v, schema_)

\* The errors a validate call reports to its caller: none when it returns,
\* the one it raised otherwise.
ErrorsOf(r) == IF r.status = "ValidationError" THEN <<r.error>> ELSE <<>>

(***************************************************************************)
(* Building the objects of a call: every dict of the data and every dict   *)
(* default of the schema is an object of its own.                          *)
(***************************************************************************)
RECURSIVE Alloc(_, _)
RECURSIVE AllocEntries(_, _, _)

\* The dicts of a plain value as heap objects: [heap, value].
Alloc(h, value) ==
    IF value.t = "dict"
    THEN LET r == AllocEntries(h, value.v, <<>>)
         IN  [heap |-> Append(r.heap, r.entries), value |-> Ref(Len(r.heap) + 1)]
    ELSE [heap |-> h, value |-> value]

AllocEntries(h, entries, done) ==
    IF entries = <<>> THEN [heap |-> h, entries |-> done]
    ELSE LET a == Alloc(h, entries[1].v)
         IN  AllocEntries(a.heap, Tail(entries),
                          Append(done, [k |-> entries[1].k, v |-> a.value]))

RECURSIVE AllocSchema(_, _, _)

\* The dict defaults of a schema as heap objects: [heap, entries].
AllocSchema(h, entries, done) ==
    IF entries = <<>> THEN [heap |-> h, entries |-> done]
    ELSE LET def == entries[1].v
             a == Alloc(h, def.default)
             f == AllocSchema(a.heap, def.fields, <<>>)
         IN  AllocSchema(f.heap, Tail(entries),
                 Append(done, [k |-> entries[1].k,
                               v |-> [def EXCEPT !.default = a.value,
                                                 !.fields = f.entries]]))

SchemaDef(type, has_default, default, optional, has_fields, fields, item_type) ==
    [type |-> type, has_default |-> has_default, default |-> default,
     optional |-> optional, has_fields |-> has_fields, fields |-> fields,
     item_type |-> item_type]

\* {'type': type} with 'default' and 'optional' as given
Leaf(type, has_default, default, optional) ==
    SchemaDef(type, has_default, default, optional, FALSE, <<>>, NoneV)

Entry(k, v) == [k |-> k, v |-> v]

(***************************************************************************)
(* Bounds and the inputs drawn within them                                 *)
(***************************************************************************)
MaxItems  == 2   \* key-value pairs in the root object of a source document
MaxStrLen == 2   \* characters of a string handed to dump
MaxDepth  == 3   \* nesting depth of the schemas with nested fields
MaxRuns   == 2   \* validate calls on the same data
MaxEdits  == 2   \* changes the caller makes to loaded data before dumping it
MaxSubtypes == 3 \* type atoms joined by | in a type expression

\* All sequences over S of length at most n.
RECURSIVE SeqsUpTo(_, _)
SeqsUpTo(S, n) ==
    IF n = 0 THEN {<<>>}
    ELSE LET shorter == SeqsUpTo(S, n - 1)
         IN  shorter \cup {Append(s, x) : s \in shorter, x \in S}

\* Source documents: a root object of at most MaxItems pairs; a pair is
\* "key = value," or, with an inline comment, "key = value #c".
SourceKeys == {<<"a">>, <<"b">>}

SourceValues ==
    { <<"1">>,
      <<DQ, BS, BS, DQ>>,
      <<"{", "b", " ", "=", " ", "1", "}">>,
      <<"{", "b", " ", "=", " ", "1", ",", " ", "b", " ", "=", " ", "2", "}">> }

SourceItems ==
    { k \o <<" ", "=", " ">> \o v \o tail :
        k \in SourceKeys, v \in SourceValues,
        tail \in { <<",", NL>>, <<" ", "#", "c", NL>> } }

RECURSIVE Concat(_)
Concat(parts) == IF parts = <<>> THEN <<>> ELSE parts[1] \o Concat(Tail(parts))

SourceDocuments ==
    { <<"{">> \o Concat(items) \o <<"}">> : items \in SeqsUpTo(SourceItems, MaxItems) }

\* Documents by the form of their root: key-value pairs one per line, with
\* commas between them, on one line, or with a comma after the last; the
\* same inside braces; and a bare scalar.
RootPairs ==
    { <<"a", " ", "=", " ", "1">>,
      <<"b", " ", "=", " ", "2">>,
      <<"b", " ", "=", " ", "{", "c", " ", "=", " ", "1", "}">> }

RECURSIVE JoinWith(_, _)
JoinWith(parts, sep) ==
    IF Len(parts) = 1 THEN parts[1]
    ELSE parts[1] \o sep \o JoinWith(Tail(parts), sep)

PairSeqs == SeqsUpTo(RootPairs, MaxItems) \ {<<>>}

NewlineSeparated == { JoinWith(ps, <<NL>>) : ps \in PairSeqs }

CommaSeparated ==
    { JoinWith(ps, sep) : ps \in { q \in PairSeqs : Len(q) >= 2 },
                          sep \in { <<",", " ">>, <<",", NL>> } }

SameLine == { JoinWith(ps, <<" ">>) : ps \in { q \in PairSeqs : Len(q) >= 2 } }

TrailingComma == { d \o <<",">> : d \in NewlineSeparated }

RootPairDocuments == NewlineSeparated \cup CommaSeparated \cup SameLine \cup TrailingComma

BareScalars ==
    { <<"1">>, <<"1", ".", "5">>, <<DQ, "x", DQ>>, <<"'", "x", "'">>,
      <<"t", "r", "u", "e">>, <<"n", "u", "l", "l">> }

\* The empty document, documents of whitespace and newlines only, and
\* documents of comments only.
EmptyDocuments ==
    { <<>>, <<" ">>, <<NL>>, <<" ", NL, " ", NL>>,
      <<"#", "c">>, <<"#", "c", NL>>, <<"#", "c", NL, "#", "d", NL>> }

\* A root value followed by further tokens.
TrailingTokens ==
    { <<" ", "x">>, <<" ", "}">>, <<NL, "1">>, <<",">>, <<NL, "b", " ", "=", " ", "2">>,
      <<"{", "}">> }

RootValues == { <<"{", "a", " ", "=", " ", "1", "}">>, <<"[", "1", "]">>, <<"1">> }

TrailingDocuments == { value \o rest : value \in RootValues, rest \in TrailingTokens }

\* A root value followed by whitespace, newlines and comments only.
PaddedDocuments ==
    { value \o rest : value \in RootValues, rest \in { <<NL>>, <<" ", "#", "c", NL>> } }

\* Documents that end inside an object, a list or a string, or hold a
\* character or token that cannot be there.
MalformedDocuments ==
    { <<"{", "a", " ", "=", " ", "1">>, <<"[", "1", ",", " ", "2">>, <<"{", "a", " ", "1", "}">>,
      <<"{", "a", " ", "=", " ", "@", "}">>, <<DQ, "x">>, <<"[", "1", " ", "2", "]">>,
      <<"{", "a", " ", "=", " ", "1", " ", "b", " ", "=", " ", "2", "}">>, <<"[", ",", "]">>,
      <<"{", "=", "}">>, <<"{", "a", " ", "=", "}">> }

RootDocuments ==
    RootPairDocuments \cup { <<"{">> \o d \o <<"}">> : d \in RootPairDocuments }
    \cup BareScalars
    \cup EmptyDocuments \cup TrailingDocuments \cup PaddedDocuments \cup MalformedDocuments

\* Documents with comments: before the key a, before its value, after the
\* last child of a list or object value, after the value on its line, and
\* after the last root pair; and a scalar document with comments before it.
CommentValues ==
    { <<"1">>,
      <<"[", "1", "]">>,
      <<"[", "1", ",", NL, "#", "l", NL, "]">>,
      <<"{", "b", " ", "=", " ", "1", "}">>,
      <<"{", "b", " ", "=", " ", "1", ",", NL, "#", "n", NL, "}">> }

CommentDocuments ==
    { <<"{">> \o lead \o <<"a", " ", "=", " ">> \o inner \o value \o inline \o last \o <<"}">> :
        lead \in { <<>>, <<"#", "a", NL>> },
        inner \in { <<>>, <<"#", "b", NL>> },
        value \in CommentValues,
        inline \in { <<",", NL>>, <<" ", "#", "i", NL>> },
        last \in { <<>>, <<"#", "e", NL>> } }
    \cup { <<"#", "c", NL, "1">>, <<"#", "c", NL, "#", "d", NL, "1">> }

\* Source documents for the caller that changes the loaded data.
EditItems ==
    { <<"a", " ", "=", " ", "1", " ", "#", "c", NL>>,
      <<"a", " ", "=", " ", "{", "b", " ", "=", " ", "1", "}", ",", NL>>,
      <<"b", " ", "=", " ", "1", ",", NL>>,
      <<"b", " ", "=", " ", "{", "b", " ", "=", " ", "1", "}", " ", "#", "d", NL>> }

EditDocuments ==
    { <<"{">> \o Concat(items) \o <<"}">> : items \in SeqsUpTo(EditItems, MaxItems) }

\* The keys and the values the caller writes.
EditKeys == { <<"a">>, <<"b">>, <<"c">> }
EditValues == { IntV(7) }

\* Data handed to dump: a dict with one key.
StringChars == {"x", DQ, BS, "n", NL}

DumpScalars ==
    { StrV(s) : s \in SeqsUpTo(StringChars, MaxStrLen) }
    \cup { IntV(-1), IntV(10), FloatV(FALSE, 1, <<"5">>), BoolV(TRUE), BoolV(FALSE), NoneV }

DumpValues ==
    DumpScalars
    \cup { ListV(<<>>), ListV(<<IntV(1), StrV(<<"x">>)>>),
           DictV(<<>>), DictV(<<Entry(<<"b">>, IntV(1))>>) }

DumpData == { DictV(<<Entry(k, v)>>) : k \in {<<"a">>, <<"a", " ", "b">>}, v \in DumpValues }

\* The schema argument of the public load: None, or a schema in the form
\* FTMLValidator takes.
SchemaArgs == { <<>>, <<Entry(<<"a">>, Leaf(StrV(T_int), FALSE, NoneV, FALSE))>> }

\* Schemas and data for the validator.  The flat family: one or two fields
\* a, b of scalar and union types.
FlatTypes ==
    { T_int, T_str,
      <<"i", "n", "t", " ", "|", " ", "n", "u", "l", "l">>,
      <<"i", "n", "t", "|", "s", "t", "r">> }

\* ('default' in schema_def, default, optional)
DefaultChoices ==
    { <<FALSE, NoneV, FALSE>>, <<FALSE, NoneV, TRUE>>,
      <<TRUE, IntV(1), FALSE>>, <<TRUE, StrV(<<"x">>), FALSE>> }

FlatDefs == { Leaf(StrV(ty), c[1], c[2], c[3]) : ty \in FlatTypes, c \in DefaultChoices }

FlatSchemas ==
    { <<Entry(<<"a">>, d)>> : d \in FlatDefs }
    \cup { <<Entry(<<"a">>, d), Entry(<<"b">>, e)>> : d \in FlatDefs, e \in FlatDefs }

FlatValues == { IntV(1), StrV(<<"x">>), NoneV }

FlatData ==
    { DictV(<<>>) }
    \cup { DictV(<<Entry(<<"a">>, x)>>) : x \in FlatValues }
    \cup { DictV(<<Entry(<<"b">>, y)>>) : y \in FlatValues }
    \cup { DictV(<<Entry(<<"a">>, x), Entry(<<"b">>, y)>>) : x \in FlatValues, y \in FlatValues }

\* The multiplicity family: one field a+, a? or a* of type int.
MultiSchemas ==
    { <<Entry(<<"a", m>>, Leaf(StrV(T_int), FALSE, NoneV, FALSE))>> : m \in Multiplicities }

MultiData ==
    { DictV(<<>>) }
    \cup { DictV(<<Entry(<<"a">>, x)>>) :
             x \in { ListV(<<>>), ListV(<<IntV(1)>>), ListV(<<IntV(1), StrV(<<"x">>)>>),
                     ListV(<<IntV(1), IntV(2)>>), IntV(1), StrV(<<"x", "y">>) } }

\* The nested family: one root field a whose fields nest to MaxDepth, the
\* field at level i being named LevelKeys[i].
LevelKeys == <<"a", "b", "c", "d", "e", "f">>
LevelKey(level) == <<LevelKeys[level]>>

RECURSIVE NestedDefs(_)
NestedDefs(level) ==
    LET leaves == { Leaf(StrV(ty), c[1], c[2], c[3]) :
                      ty \in {T_int, T_str}, c \in DefaultChoices }
        dictDefaults ==
            { <<FALSE, NoneV, FALSE>>, <<FALSE, NoneV, TRUE>>,
              <<TRUE, DictV(<<>>), FALSE>>,
              <<TRUE, DictV(<<Entry(LevelKey(level + 1), IntV(2))>>), FALSE>> }
    IN  IF level >= MaxDepth THEN leaves
        ELSE leaves \cup
             { SchemaDef(StrV(T_dict), c[1], c[2], c[3], TRUE,
                         <<Entry(LevelKey(level + 1), sub)>>, NoneV) :
                 c \in dictDefaults, sub \in NestedDefs(level + 1) }

NestedSchemas == { <<Entry(LevelKey(1), d)>> : d \in NestedDefs(1) }

RECURSIVE NestedValues(_)
NestedValues(level) ==
    IF level >= MaxDepth THEN { IntV(1), StrV(<<"x">>) }
    ELSE { IntV(1), StrV(<<"x">>), DictV(<<>>) }
         \cup { DictV(<<Entry(LevelKey(level + 1), y)>>) : y \in NestedValues(level + 1) }

NestedData ==
    { DictV(<<>>) } \cup { DictV(<<Entry(LevelKey(1), x)>>) : x \in NestedValues(1) }

\* The type family: one field a of a scalar or union type over int, bool,
\* str and null, and a value for it.
TypeSchemas ==
    { <<Entry(<<"a">>, Leaf(StrV(ty), FALSE, NoneV, FALSE))>> :
        ty \in { T_int, T_bool, T_str,
                 <<"i", "n", "t", " ", "|", " ", "s", "t", "r">>,
                 <<"b", "o", "o", "l", " ", "|", " ", "s", "t", "r">>,
                 <<"i", "n", "t", " ", "|", " ", "n", "u", "l", "l">>,
                 <<"i", "n", "t", " ", "|", " ", "b", "o", "o", "l">> } }

TypeData ==
    { DictV(<<Entry(<<"a">>, x)>>) :
        x \in { BoolV(TRUE), BoolV(FALSE), IntV(0), IntV(1), StrV(<<"x">>), NoneV } }

TypeInputs == TypeSchemas \X TypeData

ValidatorInputs ==
    (FlatSchemas \X FlatData) \cup (MultiSchemas \X MultiData)
    \cup (NestedSchemas \X NestedData)

(***************************************************************************)
(* The caller of load and dump: it loads a source document, or builds      *)
(* data itself, dumps the value and loads the dumped text again.           *)
(***************************************************************************)
IdleVersion ==
    /\ engineVersion = <<>>
    /\ checkVersionArg = TRUE
    /\ versionData = NoneV
    /\ gateOutcome = NotRun

IdleSchemaParser ==
    /\ spTokens = <<>>
    /\ spResult = NotRun

IdleSchemaValidator ==
    /\ svStrict = TRUE
    /\ svSchema = <<>>
    /\ svData = NoneV
    /\ svErrors = <<>>

IdleValidator ==
    /\ heap = <<>>
    /\ data = NoneV
    /\ schema = <<>>
    /\ outcome = [status |-> "none", errors |-> <<>>]
    /\ before = <<>>
    /\ original = <<>>
    /\ runs = 0

InitCore ==
    /\ \/ /\ pc = "start"
          /\ source \in SourceDocuments
          /\ loaded = NotRun
       \/ /\ pc = "data"
          /\ source = <<>>
          /\ loaded \in { Outcome("given", d) : d \in DumpData }
    /\ schemaArg = <<>>
    /\ validateArg = TRUE
    /\ dumped = <<>>
    /\ reloaded = NotRun
    /\ edits = 0
    /\ IdleValidator
    /\ IdleSchemaValidator
    /\ IdleVersion
    /\ IdleSchemaParser

\* data = ftml.load(source, schema=schema_, validate=validate_)
Load ==
    /\ pc = "start"
    /\ \E schema_ \in SchemaArgs, validate_ \in BOOLEAN :
          /\ schemaArg' = schema_
          /\ validateArg' = validate_
          /\ loaded' = load(source, schema_, validate_)
    /\ pc' = "loaded"
    /\ UNCHANGED <<source, dumped, reloaded, edits>>
    /\ UNCHANGED validatorVars
    /\ UNCHANGED schemaValidatorVars
    /\ UNCHANGED versionVars
    /\ UNCHANGED schemaParserVars

\* text = ftml.dump(data), on data loaded without schema and validation or
\* built by the caller
Dump ==
    /\ \/ pc = "loaded" /\ loaded.status = "ok" /\ schemaArg = <<>> /\ ~validateArg
       \/ pc = "data"
    /\ dumped' = dump(loaded.value, <<>>, TRUE)
    /\ pc' = "dumped"
    /\ UNCHANGED <<source, schemaArg, validateArg, loaded, reloaded, edits>>
    /\ UNCHANGED validatorVars
    /\ UNCHANGED schemaValidatorVars
    /\ UNCHANGED versionVars
    /\ UNCHANGED schemaParserVars

\* ftml.load(text)
Reload ==
    /\ pc = "dumped"
    /\ reloaded' = load(dumped, <<>>, TRUE)
    /\ pc' = "done"
    /\ UNCHANGED <<source, schemaArg, validateArg, loaded, dumped, edits>>
    /\ UNCHANGED validatorVars
    /\ UNCHANGED schemaValidatorVars
    /\ UNCHANGED versionVars
    /\ UNCHANGED schemaParserVars

NextCore == Load \/ Dump \/ Reload

SpecCore == InitCore /\ [][NextCore]_vars

\* The caller that loads documents of every root form.
InitRoot ==
    /\ pc = "start"
    /\ source \in RootDocuments
    /\ loaded = NotRun
    /\ schemaArg = <<>>
    /\ validateArg = TRUE
    /\ dumped = <<>>
    /\ reloaded = NotRun
    /\ edits = 0
    /\ IdleValidator
    /\ IdleSchemaValidator
    /\ IdleVersion
    /\ IdleSchemaParser

SpecRoot == InitRoot /\ [][NextCore]_vars

\* The caller that loads documents with comments.
InitComments ==
    /\ pc = "start"
    /\ source \in CommentDocuments
    /\ loaded = NotRun
    /\ schemaArg = <<>>
    /\ validateArg = TRUE
    /\ dumped = <<>>
    /\ reloaded = NotRun
    /\ edits = 0
    /\ IdleValidator
    /\ IdleSchemaValidator
    /\ IdleVersion
    /\ IdleSchemaParser

SpecComments == InitComments /\ [][NextCore]_vars

(***************************************************************************)
(* The caller that changes the loaded data before dumping it: it sets and  *)
(* deletes keys of the root dict and of the dict under the root key a.     *)
(***************************************************************************)
InitEdit ==
    /\ pc = "start"
    /\ source \in EditDocuments
    /\ loaded = NotRun
    /\ schemaArg = <<>>
    /\ validateArg = TRUE
    /\ dumped = <<>>
    /\ reloaded = NotRun
    /\ edits = 0
    /\ IdleValidator
    /\ IdleSchemaValidator
    /\ IdleVersion
    /\ IdleSchemaParser

\* The values of d after one statement of the caller: d[k] = v, del d[k],
\* d['a'][k] = v or del d['a'][k].
Edited(d) ==
    LET here(x) == { DictV(SetKey(x.v, k, v)) : k \in EditKeys, v \in EditValues }
                   \cup { DictV(DelKey(x.v, k)) : k \in { j \in EditKeys : HasKey(x.v, j) } }
    IN  here(d) \cup
        IF HasKey(d.v, <<"a">>) /\ GetKey(d.v, <<"a">>).t = "dict"
        THEN { DictV(SetKey(d.v, <<"a">>, y)) : y \in here(GetKey(d.v, <<"a">>)) }
        ELSE {}

\* data[k] = v, del data[k], data['a'][k] = v or del data['a'][k] on the
\* dict that load returned
Mutate ==
    /\ pc = "loaded" /\ loaded.status = "ok" /\ schemaArg = <<>> /\ ~validateArg
    /\ loaded.value.t = "dict"
    /\ edits < MaxEdits
    /\ \E d \in Edited(loaded.value) : loaded' = [loaded EXCEPT !.value = d]
    /\ edits' = edits + 1
    /\ UNCHANGED <<pc, source, schemaArg, validateArg, dumped, reloaded>>
    /\ UNCHANGED validatorVars
    /\ UNCHANGED schemaValidatorVars
    /\ UNCHANGED versionVars
    /\ UNCHANGED schemaParserVars

NextEdit == Load \/ Mutate \/ Dump \/ Reload

SpecEdit == InitEdit /\ [][NextEdit]_vars

(***************************************************************************)
(* The caller of the validator: it validates the same data up to MaxRuns   *)
(* times with one FTMLValidator.                                           *)
(***************************************************************************)
IdleCore ==
    /\ source = <<>>
    /\ schemaArg = <<>>
    /\ validateArg = TRUE
    /\ loaded = NotRun
    /\ dumped = <<>>
    /\ reloaded = NotRun
    /\ edits = 0

InitValidator ==
    /\ pc = "validate"
    /\ \E input \in ValidatorInputs :
          LET d == Alloc(<<>>, input[2])
              s == AllocSchema(d.heap, input[1], <<>>)
          IN  /\ heap = s.heap
              /\ data = d.value
              /\ schema = s.entries
              /\ original = s.heap
              /\ before = s.heap
    /\ outcome = [status |-> "none", errors |-> <<>>]
    /\ runs = 0
    /\ IdleCore
    /\ IdleSchemaValidator
    /\ IdleVersion
    /\ IdleSchemaParser

\* FTMLValidator(schema).validate(data)
Validate ==
    /\ pc = "validate"
    /\ runs < MaxRuns
    /\ LET r == validate(heap, data, schema)
       IN  /\ heap' = r.heap
           /\ outcome' = [status |-> r.status, errors |-> ErrorsOf(r)]
    /\ before' = heap
    /\ runs' = runs + 1
    /\ UNCHANGED <<pc, data, schema, original>>
    /\ UNCHANGED coreVars
    /\ UNCHANGED schemaValidatorVars
    /\ UNCHANGED versionVars
    /\ UNCHANGED schemaParserVars

NextValidator == Validate

\* The validator made with a schema of the type family.
InitTypes ==
    /\ pc = "validate"
    /\ \E input \in TypeInputs :
          LET d == Alloc(<<>>, input[2])
              s == AllocSchema(d.heap, input[1], <<>>)
          IN  /\ heap = s.heap
              /\ data = d.value
              /\ schema = s.entries
              /\ original = s.heap
              /\ before = s.heap
    /\ outcome = [status |-> "none", errors |-> <<>>]
    /\ runs = 0
    /\ IdleCore
    /\ IdleSchemaValidator
    /\ IdleVersion
    /\ IdleSchemaParser

SpecTypes == InitTypes /\ [][NextValidator]_vars

SpecValidator == InitValidator /\ [][NextValidator]_vars

(***************************************************************************)
(* The validator with a strict flag over schema types with an ext flag:    *)
(* the depth-first walk over (value, type) of the specification's          *)
(* Validator, for scalar types and structured and untyped objects.         *)
(***************************************************************************)
ScalarType(name, optional) ==
    [kind |-> "scalar", name |-> name, optional |-> optional,
     untyped |-> FALSE, fields |-> <<>>, ext |-> FALSE]

\* {field: type, ...}<ext=ext>
ObjectType(fields, ext, optional) ==
    [kind |-> "object", name |-> "dict", optional |-> optional,
     untyped |-> FALSE, fields |-> fields, ext |-> ext]

\* {}<ext=ext>
UntypedObject(ext, optional) ==
    [kind |-> "object", name |-> "dict", optional |-> optional,
     untyped |-> TRUE, fields |-> <<>>, ext |-> ext]

ValidationError(code, path) == [code |-> code, path |-> path]

\* The keys of the dict entries x that the fields do not declare.
ExtraFields(x, fields) == { i \in 1..Len(x) : ~HasKey(fields, x[i].k) }

\* Extra fields are reported whatever the strict flag says.
ForbidsExtraWhenLenient(strict_, type) ==
    ~type.ext /\ ~type.untyped

\* Extra fields are an error unless the object has ext=true, the validator
\* was made with strict=false, or the object is untyped.
ForbidsExtra(strict_, type) ==
    strict_ /\ ~type.ext /\ ~type.untyped

RECURSIVE validate_type(_, _, _, _)
RECURSIVE validate_fields(_, _, _, _)

\* The walk over the declared fields not yet visited: a missing field is an
\* error unless it is optional.
validate_fields(strict_, x, fields, path) ==
    IF fields = <<>> THEN <<>>
    ELSE LET k == fields[1].k
             here == IF HasKey(x, k)
                     THEN validate_type(strict_, GetKey(x, k), fields[1].v, Append(path, k))
                     ELSE IF fields[1].v.optional THEN <<>>
                     ELSE <<ValidationError("missing required field", Append(path, k))>>
         IN  here \o validate_fields(strict_, x, Tail(fields), path)

\* The errors of the value x against the type at the path.
validate_type(strict_, x, type, path) ==
    IF x.t # type.name THEN <<ValidationError("type mismatch", path)>>
    ELSE IF type.kind = "scalar" \/ type.untyped THEN <<>>
    ELSE (IF ForbidsExtra(strict_, type) /\ ExtraFields(x.v, type.fields) # {}
          THEN <<ValidationError("contains unknown fields", path)>>
          ELSE <<>>)
         \o validate_fields(strict_, x.v, type.fields, path)

\* The object types: name and the optional nick, and a nested object sub.
InnerObjects ==
    { ObjectType(<<Entry(<<"n">>, ScalarType("str", FALSE)),
                   Entry(<<"k">>, ScalarType("int", TRUE))>>, e, FALSE) : e \in BOOLEAN }
    \cup { UntypedObject(e, FALSE) : e \in BOOLEAN }

ObjectSchemas ==
    InnerObjects
    \cup { ObjectType(<<Entry(<<"n">>, ScalarType("str", FALSE)),
                        Entry(<<"s">>, inner)>>, e, FALSE) :
             inner \in InnerObjects, e \in BOOLEAN }

InnerData ==
    { DictV(<<>>),
      DictV(<<Entry(<<"n">>, StrV(<<"x">>))>>),
      DictV(<<Entry(<<"n">>, StrV(<<"x">>)), Entry(<<"e">>, IntV(1))>>),
      DictV(<<Entry(<<"e">>, IntV(1)), Entry(<<"k">>, IntV(1))>>) }

ObjectData ==
    InnerData
    \cup { DictV(<<Entry(<<"n">>, StrV(<<"x">>)), Entry(<<"s">>, inner)>>) :
             inner \in InnerData }
    \cup { DictV(<<Entry(<<"e">>, IntV(1)), Entry(<<"n">>, StrV(<<"x">>)),
                   Entry(<<"s">>, inner)>>) : inner \in InnerData }

InitSchemaValidator ==
    /\ pc = "schema"
    /\ svSchema \in ObjectSchemas
    /\ svData \in ObjectData
    /\ svStrict = TRUE
    /\ svErrors = <<>>
    /\ IdleCore
    /\ IdleValidator
    /\ IdleVersion
    /\ IdleSchemaParser

\* errors = SchemaValidator(schema, strict=strict_).validate(data)
SchemaValidate ==
    /\ pc = "schema"
    /\ \E strict_ \in BOOLEAN :
          /\ svStrict' = strict_
          /\ svErrors' = validate_type(strict_, svData, svSchema, <<>>)
    /\ pc' = "validated"
    /\ UNCHANGED <<svSchema, svData>>
    /\ UNCHANGED coreVars
    /\ UNCHANGED validatorVars
    /\ UNCHANGED versionVars
    /\ UNCHANGED schemaParserVars

NextSchemaValidator == SchemaValidate

SpecSchemaValidator == InitSchemaValidator /\ [][NextSchemaValidator]_vars

(***************************************************************************)
(* The version check of load.  A version is written MAJOR.MINOR or         *)
(* MAJOR.MINOR{a|b|rc}N; load fails when the document's ftml_version is     *)
(* greater than the engine's, unless check_version is false.               *)
(***************************************************************************)
FTML_VERSION == <<"f", "t", "m", "l", "_", "v", "e", "r", "s", "i", "o", "n">>

AllDigits(s) == s # <<>> /\ \A i \in 1..Len(s) : s[i] \in Digits

\* release > rc > b > a
StageRank(stage) ==
    CASE stage = <<"a">>      -> 0
      [] stage = <<"b">>      -> 1
      [] stage = <<"r", "c">> -> 2
      [] stage = <<>>         -> 3
      [] OTHER                -> -1

\* The parts of the version text: the digits before the dot, the digits
\* after it, the letters of the stage and the digits of the counter.
VersionParts(s) ==
    LET dot == ScanUntil(s, 1, {"."})
        minorEnd == ScanWhile(s, dot + 1, Digits)
        stageEnd == ScanUntil(s, minorEnd, Digits \cup {"."})
    IN  [major |-> SubSeq(s, 1, dot - 1),
         minor |-> SubSeq(s, dot + 1, minorEnd - 1),
         stage |-> SubSeq(s, minorEnd, stageEnd - 1),
         counter |-> SubSeq(s, stageEnd, Len(s))]

\* The text matches MAJOR.MINOR or MAJOR.MINOR{a|b|rc}N.
IsVersionText(s) ==
    LET parts == VersionParts(s)
    IN  /\ AllDigits(parts.major)
        /\ AllDigits(parts.minor)
        /\ \/ parts.stage = <<>> /\ parts.counter = <<>>
           \/ StageRank(parts.stage) \in 0..2 /\ AllDigits(parts.counter)

\* <<major, minor, rank of the stage, counter>> of a version text
parse_version(s) ==
    LET parts == VersionParts(s)
    IN  <<DigitsToNat(parts.major), DigitsToNat(parts.minor), StageRank(parts.stage),
          IF parts.counter = <<>> THEN 0 ELSE DigitsToNat(parts.counter)>>

\* The order on major and minor alone.
compare_releases(x, y) ==
    IF x[1] # y[1] THEN (IF x[1] > y[1] THEN 1 ELSE -1)
    ELSE IF x[2] # y[2] THEN (IF x[2] > y[2] THEN 1 ELSE -1)
    ELSE 0

\* 1, 0 or -1 as the version x is greater than, equal to or less than y:
\* the first of major, minor, stage and counter that differs decides.
compare_versions(x, y) ==
    LET differing == { i \in 1..4 : x[i] # y[i] }
    IN  IF differing = {} THEN 0
        ELSE IF x[Min(differing)] > y[Min(differing)] THEN 1 ELSE -1

\* The version check after parsing: the outcome of load on the parsed map.
version_gate(value, check_version, engine) ==
    IF ~check_version \/ ~HasKey(value.v, FTML_VERSION) THEN Outcome("ok", value)
    ELSE IF GetKey(value.v, FTML_VERSION).t # "str" THEN Outcome("FTMLVersionError", NoneV)
    ELSE IF ~IsVersionText(GetKey(value.v, FTML_VERSION).v)
         THEN Outcome("FTMLVersionError", NoneV)
    ELSE IF compare_versions(parse_version(GetKey(value.v, FTML_VERSION).v),
                             parse_version(engine)) > 0
         THEN Outcome("FTMLVersionError", NoneV)
    ELSE Outcome("ok", value)

\* Versions by their parts, and the text of a version.
Versions ==
    { [major |-> ma, minor |-> mi, stage |-> <<>>, counter |-> 0] :
        ma \in {1, 2}, mi \in {9, 10} }
    \cup { [major |-> ma, minor |-> mi, stage |-> st, counter |-> n] :
             ma \in {1, 2}, mi \in {9, 10},
             st \in { <<"a">>, <<"b">>, <<"r", "c">> }, n \in {2, 10} }

FormatVersion(version) ==
    NatToDigits(version.major) \o <<".">> \o NatToDigits(version.minor)
    \o version.stage
    \o (IF version.stage = <<>> THEN <<>> ELSE NatToDigits(version.counter))

\* The parsed documents: key = "value", with or without an ftml_version of
\* a version text, of a text that is no version, or of a float.
VersionedData ==
    { DictV(<<Entry(<<"k", "e", "y">>, StrV(<<"v">>))>>) }
    \cup { DictV(<<Entry(FTML_VERSION, x), Entry(<<"k", "e", "y">>, StrV(<<"v">>))>>) :
             x \in { StrV(FormatVersion(version)) : version \in Versions }
                   \cup { StrV(<<"1", ".", "0", ".", "0">>), StrV(<<"1", ".", "9", "x", "1">>),
                           FloatV(FALSE, 1, <<>>) } }

InitVersion ==
    /\ pc = "version"
    /\ engineVersion \in { FormatVersion(version) : version \in Versions }
    /\ versionData \in VersionedData
    /\ checkVersionArg = TRUE
    /\ gateOutcome = NotRun
    /\ IdleCore
    /\ IdleValidator
    /\ IdleSchemaValidator
    /\ IdleSchemaParser

\* data = ftml.load(text, check_version=check_version_)
LoadVersioned ==
    /\ pc = "version"
    /\ \E check_version_ \in BOOLEAN :
          /\ checkVersionArg' = check_version_
          /\ gateOutcome' = version_gate(versionData, check_version_, engineVersion)
    /\ pc' = "gated"
    /\ UNCHANGED <<engineVersion, versionData>>
    /\ UNCHANGED coreVars
    /\ UNCHANGED validatorVars
    /\ UNCHANGED schemaValidatorVars
    /\ UNCHANGED schemaParserVars

SpecVersion == InitVersion /\ [][LoadVersioned]_vars

(***************************************************************************)
(* The schema parser, on the tokens of the type expression of a field      *)
(* declaration:  TYPE_EXPR ::= ATOM ('|' TYPE_EXPR)?,  ATOM ::= a scalar    *)
(* type name, [TYPE_EXPR], {}, {TYPE_EXPR}, {NAME: TYPE_EXPR, ...} or a     *)
(* string literal.                                                         *)
(***************************************************************************)
ScalarTypeNode(type_name, enum) ==
    [kind |-> "scalar", type_name |-> type_name, enum |-> enum,
     item_type |-> <<>>, fields |-> <<>>, subtypes |-> <<>>]

\* [T]: item_type holds the one type of the items
ListTypeNode(item_type) ==
    [kind |-> "list", type_name |-> <<>>, enum |-> <<>>,
     item_type |-> <<item_type>>, fields |-> <<>>, subtypes |-> <<>>]

\* {}, the pattern object {T} (item_type holds T) and the object of fields
ObjectTypeNode(fields, pattern_value_type) ==
    [kind |-> "object", type_name |-> <<>>, enum |-> <<>>,
     item_type |-> pattern_value_type, fields |-> fields, subtypes |-> <<>>]

UnionTypeNode(subtypes) ==
    [kind |-> "union", type_name |-> <<>>, enum |-> <<>>,
     item_type |-> <<>>, fields |-> <<>>, subtypes |-> subtypes]

ScalarTypeNames == { T_str, T_int, T_float, T_bool, T_null, <<"a", "n", "y">> }

\* The union of the first subtype and the rest of the type expression, the
\* rest kept as one subtype.
nest_union(first, rest) ==
    UnionTypeNode(<<first, rest>>)

\* The union of the first subtype and the rest of the type expression; the
\* subtypes of a rest that is a union are taken over one by one.
make_union(first, rest) ==
    UnionTypeNode(<<first>> \o (IF rest.kind = "union" THEN rest.subtypes ELSE <<rest>>))

RECURSIVE parse_type_expr(_, _)
RECURSIVE parse_type_atom(_, _)
RECURSIVE parse_type_fields(_, _, _)

\* The field declarations NAME ':' TYPE_EXPR of an object, with commas
\* between them, up to the closing brace.
parse_type_fields(tokens, pos, fields) ==
    IF peek(tokens, pos).type = "RBRACE"
    THEN Parsed(ObjectTypeNode(fields, <<>>), pos + 1)
    ELSE IF peek(tokens, pos).type # "IDENT" \/ peek(tokens, pos + 1).type # "COLON"
         THEN ParserError(pos)
    ELSE Let(parse_type_expr(tokens, pos + 2), LAMBDA r :
             IF r.err THEN r
             ELSE IF HasKey(fields, peek(tokens, pos).value.v) THEN ParserError(pos)
             ELSE IF peek(tokens, r.pos).type = "COMMA"
                  THEN parse_type_fields(tokens, r.pos + 1,
                           Append(fields, Entry(peek(tokens, pos).value.v, r.node)))
             ELSE IF peek(tokens, r.pos).type = "RBRACE"
                  THEN Parsed(ObjectTypeNode(
                                  Append(fields, Entry(peek(tokens, pos).value.v, r.node)),
                                  <<>>),
                              r.pos + 1)
             ELSE ParserError(r.pos))

\* A string literal where a type is expected: parser.parse of
\* format: "json" | "yaml" | "xml" raises FTMLParseError.
parse_literal_atom(tokens, pos) ==
    ParserError(pos)

\* ATOM
parse_type_atom(tokens, pos) ==
    CASE peek(tokens, pos).type = "IDENT" ->
           IF peek(tokens, pos).value.v \in ScalarTypeNames
           THEN Parsed(ScalarTypeNode(peek(tokens, pos).value.v, <<>>), pos + 1)
           ELSE ParserError(pos)
      [] peek(tokens, pos).type = "STRING" -> parse_literal_atom(tokens, pos)
      [] peek(tokens, pos).type = "LBRACKET" ->
           Let(parse_type_expr(tokens, pos + 1), LAMBDA r :
               IF r.err THEN r
               ELSE IF peek(tokens, r.pos).type # "RBRACKET" THEN ParserError(r.pos)
               ELSE Parsed(ListTypeNode(r.node), r.pos + 1))
      [] peek(tokens, pos).type = "LBRACE" ->
           IF peek(tokens, pos + 1).type = "RBRACE"
           THEN Parsed(ObjectTypeNode(<<>>, <<>>), pos + 2)
           ELSE IF peek(tokens, pos + 1).type = "IDENT" /\ peek(tokens, pos + 2).type = "COLON"
                THEN parse_type_fields(tokens, pos + 1, <<>>)
           ELSE Let(parse_type_expr(tokens, pos + 1), LAMBDA r :
                    IF r.err THEN r
                    ELSE IF peek(tokens, r.pos).type # "RBRACE" THEN ParserError(r.pos)
                    ELSE Parsed(ObjectTypeNode(<<>>, <<r.node>>), r.pos + 1))
      [] OTHER -> ParserError(pos)

\* TYPE_EXPR ::= ATOM ('|' TYPE_EXPR)?
parse_type_expr(tokens, pos) ==
    Let(parse_type_atom(tokens, pos), LAMBDA first :
        IF first.err THEN first
        ELSE IF peek(tokens, first.pos).type # "PIPE" THEN first
        ELSE Let(parse_type_expr(tokens, first.pos + 1), LAMBDA rest :
                 IF rest.err THEN rest
                 ELSE Parsed(make_union(first.node, rest.node), rest.pos)))

\* The type of the one field of the schema, or FTMLParseError.
parse_schema_type(tokens) ==
    Let(parse_type_expr(tokens, 1), LAMBDA r :
        IF r.err \/ peek(tokens, r.pos).type # "EOF" THEN Outcome("FTMLParseError", NoneV)
        ELSE Outcome("ok", r.node))

\* Tokens of type expressions.
Ident(name) == Token("IDENT", StrV(name))
Literal(text) == Token("STRING", StrV(text))
Pipe == Token("PIPE", StrV(<<"|">>))
Punct(type) == Token(type, StrV(<<>>))

\* The type atoms joined to unions: int, null, "j", "y", [int | str] and
\* {a: int | null}.
UnionAtoms ==
    { <<Ident(T_int)>>, <<Ident(T_null)>>, <<Literal(<<"j">>)>>, <<Literal(<<"y">>)>>,
      <<Punct("LBRACKET"), Ident(T_int), Pipe, Ident(T_str), Punct("RBRACKET")>>,
      <<Punct("LBRACE"), Ident(<<"a">>), Punct("COLON"), Ident(T_int), Pipe, Ident(T_null),
        Punct("RBRACE")>> }

AtomSeqs == SeqsUpTo(UnionAtoms, MaxSubtypes) \ {<<>>}

UnionExpressions == { JoinWith(atoms, <<Pipe>>) : atoms \in AtomSeqs }

\* Type expressions: unions, a union as the item type of a list, as the
\* value type of a pattern object and as the type of the second field of an
\* object, the untyped object, and expressions that are none.
TypeExpressions ==
    UnionExpressions
    \cup { <<Punct("LBRACKET")>> \o e \o <<Punct("RBRACKET")>> :
             e \in UnionExpressions }
    \cup { <<Punct("LBRACE")>> \o e \o <<Punct("RBRACE")>> :
             e \in { JoinWith(atoms, <<Pipe>>) : atoms \in SeqsUpTo(UnionAtoms, 1) \ {<<>>} } }
    \cup { <<Punct("LBRACE"), Ident(<<"a">>), Punct("COLON"), Ident(T_str), Punct("COMMA"),
             Ident(<<"b">>), Punct("COLON")>> \o e \o <<Punct("COMMA"), Punct("RBRACE")>> :
             e \in { JoinWith(atoms, <<Pipe>>) : atoms \in SeqsUpTo(UnionAtoms, 1) \ {<<>>} } }
    \cup { <<Punct("LBRACE"), Punct("RBRACE")>>,
           <<Ident(T_int), Pipe>>, <<Pipe, Ident(T_int)>>, <<Punct("LBRACKET"), Ident(T_int)>>,
           <<Ident(<<"x">>)>>, <<Ident(T_int), Ident(T_str)>>,
           <<Punct("LBRACE"), Ident(<<"a">>), Punct("COLON"), Punct("RBRACE")>>,
           <<Punct("LBRACE"), Ident(<<"a">>), Punct("COLON"), Ident(T_int), Punct("COMMA"),
             Ident(<<"a">>), Punct("COLON"), Ident(T_int), Punct("RBRACE")>> }

InitSchemaParser ==
    /\ pc = "schema text"
    /\ spTokens \in TypeExpressions
    /\ spResult = NotRun
    /\ IdleCore
    /\ IdleValidator
    /\ IdleSchemaValidator
    /\ IdleVersion

\* SchemaParser().parse("f: " + type expression)["f"]
SchemaParse ==
    /\ pc = "schema text"
    /\ spResult' = parse_schema_type(spTokens)
    /\ pc' = "schema parsed"
    /\ UNCHANGED spTokens
    /\ UNCHANGED coreVars
    /\ UNCHANGED validatorVars
    /\ UNCHANGED schemaValidatorVars
    /\ UNCHANGED versionVars

SpecSchemaParser == InitSchemaParser /\ [][SchemaParse]_vars

(***************************************************************************)
(* Comparing values                                                        *)
(***************************************************************************)
\* A number as sign, integer part and fraction digits: True is 1, and
\* minus zero is zero.
PyNumber(x) ==
    CASE x.t = "bool"  -> <<FALSE, IF x.v THEN 1 ELSE 0, <<>>>>
      [] x.t = "int"   -> <<x.v < 0, IF x.v < 0 THEN -x.v ELSE x.v, <<>>>>
      [] x.t = "float" -> IF x.v[2] = 0 /\ x.v[3] = <<>> THEN <<FALSE, 0, <<>>>> ELSE x.v

IsNumber(x) == x.t \in {"bool", "int", "float"}

\* x == y on two values of Python: numbers by value, lists element by
\* element, dicts by their keys whatever the order.
RECURSIVE PyEq(_, _)
PyEq(x, y) ==
    IF IsNumber(x) /\ IsNumber(y) THEN PyNumber(x) = PyNumber(y)
    ELSE IF x.t # y.t THEN FALSE
    ELSE CASE x.t = "list" ->
                /\ Len(x.v) = Len(y.v)
                /\ \A i \in 1..Len(x.v) : PyEq(x.v[i], y.v[i])
           [] x.t = "dict" ->
                /\ Len(x.v) = Len(y.v)
                /\ \A i \in 1..Len(x.v) :
                      /\ HasKey(y.v, x.v[i].k)
                      /\ PyEq(x.v[i].v, GetKey(y.v, x.v[i].k))
           [] x.t = "NoneType" -> TRUE
           [] OTHER -> x.v = y.v

(***************************************************************************)
(* Round trips of load and dump                                            *)
(***************************************************************************)
\* The comments of a text: the COMMENT tokens the tokenizer finds in it.
CommentsOf(text) ==
    LET lexed == tokenize(text)
    IN  IF lexed.err THEN {}
        ELSE { CommentText(lexed.tokens[i]) :
                 i \in { j \in 1..Len(lexed.tokens) : lexed.tokens[j].type = "COMMENT" } }

\* C1: a document that load accepts, loaded without validation and dumped,
\* gives a text that load accepts and loads as the same value, and every
\* comment of the document is in the dumped text.
C1_SourceRoundTrip ==
    (pc = "done" /\ loaded.status = "ok") =>
        /\ reloaded.status = "ok"
        /\ PyEq(reloaded.value, loaded.value)
        /\ CommentsOf(source) \subseteq CommentsOf(dumped)

\* Two items of one object of the AST have the same key, at any depth.
RECURSIVE HasDuplicateKeys(_)
HasDuplicateKeys(node) ==
    CASE node.kind = "DocumentNode" -> HasDuplicateKeys(node.data)
      [] node.kind = "ObjectNode" ->
            \/ \E i, j \in 1..Len(node.items) :
                  i < j /\ node.items[i].key = node.items[j].key
            \/ \E i \in 1..Len(node.items) : HasDuplicateKeys(node.items[i].value_node)
      [] node.kind = "ListNode" ->
            \E i \in 1..Len(node.elements) : HasDuplicateKeys(node.elements[i])
      [] OTHER -> FALSE

\* The text is an FTML document in which some object repeats a key.
RepeatsKey(text) ==
    LET lexed == tokenize(text)
    IN  /\ ~lexed.err
        /\ LET doc_node == parse_document(lexed.tokens)
           IN  ~doc_node.err /\ HasDuplicateKeys(doc_node.node)

\* C2: load raises a parse error on a document in which two keys of one
\* object, the root or a nested one, are equal.
C2_DuplicateKeysRejected ==
    (pc = "loaded" /\ RepeatsKey(source)) => loaded.status = "FTMLParseError"

\* C3: a dict of strings, numbers, bools, None, lists and dicts that is
\* dumped and loaded again comes back equal, strings with quotes,
\* backslashes and newlines included.
C3_DataRoundTrip ==
    (pc = "done" /\ loaded.status = "given") =>
        /\ reloaded.status = "ok"
        /\ PyEq(reloaded.value, loaded.value)

\* The value the document parses to violates the schema: FTMLValidator
\* raises ValidationError on it.
ViolatesSchema(text, schema_) ==
    LET parsed == core_load(text)
    IN  /\ parsed.status = "ok"
        /\ parsed.value.t = "dict"
        /\ LET d == Alloc(<<>>, parsed.value)
               s == AllocSchema(d.heap, schema_, <<>>)
           IN  validate(s.heap, d.value, s.entries).status = "ValidationError"

\* C4: load with a schema and validate=True raises when the parsed data
\* violates the schema; with validate=False it returns the parsed data.
C4_StrictLoadRaises ==
    (pc = "loaded" /\ schemaArg # <<>> /\ ViolatesSchema(source, schemaArg)) =>
        IF validateArg THEN loaded.status # "ok"
        ELSE loaded.status = "ok" /\ PyEq(loaded.value, core_load(source).value)

(***************************************************************************)
(* The errors of a validation run                                          *)
(***************************************************************************)
\* type(value).__name__
TypeName(t) ==
    CASE t = "str"      -> T_str
      [] t = "int"      -> T_int
      [] t = "float"    -> T_float
      [] t = "bool"     -> T_bool
      [] t = "dict"     -> T_dict
      [] t = "list"     -> T_list
      [] t = "NoneType" -> <<"N", "o", "n", "e", "T", "y", "p", "e">>

\* The f-string's text of a list of strings: ['int', 'null']
RECURSIVE ReprItems(_)
ReprItems(types) ==
    IF types = <<>> THEN <<>>
    ELSE <<SQ>> \o types[1] \o <<SQ>>
         \o (IF Len(types) > 1 THEN <<",", " ">> ELSE <<>>) \o ReprItems(Tail(types))

ReprList(types) == <<"[">> \o ReprItems(types) \o <<"]">>

\* str(e) of a ValidationError of the validator: the f-string with its
\* values formatted in.
MessageText(e) ==
    CASE e.text = "Type mismatch. Expected one of {types}, got {type}" ->
            <<"T", "y", "p", "e", " ", "m", "i", "s", "m", "a", "t", "c", "h",
              ".", " ", "E", "x", "p", "e", "c", "t", "e", "d", " ", "o", "n",
              "e", " ", "o", "f", " ">>
            \o ReprList(e.args[1]) \o <<",", " ", "g", "o", "t", " ">>
            \o TypeName(e.args[2])
      [] e.text = "Type mismatch. Expected {expected_type}, got {type}" ->
            <<"T", "y", "p", "e", " ", "m", "i", "s", "m", "a", "t", "c", "h",
              ".", " ", "E", "x", "p", "e", "c", "t", "e", "d", " ">>
            \o e.args[1] \o <<",", " ", "g", "o", "t", " ">> \o TypeName(e.args[2])
      [] e.text \in {"Missing required field: {field}",
                     "Missing required field: {clean_key}"} ->
            <<"M", "i", "s", "s", "i", "n", "g", " ", "r", "e", "q", "u", "i",
              "r", "e", "d", " ", "f", "i", "e", "l", "d", ":", " ">>
            \o e.args[1]
      [] e.text = "Field {clean_key}+ requires at least one item" ->
            <<"F", "i", "e", "l", "d", " ">> \o e.args[1]
            \o <<"+", " ", "r", "e", "q", "u", "i", "r", "e", "s", " ", "a", "t",
                 " ", "l", "e", "a", "s", "t", " ", "o", "n", "e", " ", "i", "t",
                 "e", "m">>
      [] e.text = "Field {clean_key}? allows maximum one item" ->
            <<"F", "i", "e", "l", "d", " ">> \o e.args[1]
            \o <<"?", " ", "a", "l", "l", "o", "w", "s", " ", "m", "a", "x", "i",
                 "m", "u", "m", " ", "o", "n", "e", " ", "i", "t", "e", "m">>
      [] e.text = "Expected dict for field {clean_key}, got {type}" ->
            <<"E", "x", "p", "e", "c", "t", "e", "d", " ", "d", "i", "c", "t",
              " ", "f", "o", "r", " ", "f", "i", "e", "l", "d", " ">>
            \o e.args[1] \o <<",", " ", "g", "o", "t", " ">> \o TypeName(e.args[2])

\* part in text
Contains(text, part) ==
    \E i \in 1..(Len(text) - Len(part) + 1) : SubSeq(text, i, i + Len(part) - 1) = part

\* The texts of the errors of the last run.
ErrorTexts == [i \in 1..Len(outcome.errors) |-> MessageText(outcome.errors[i])]

\* The run of the validator on the same objects with the schema cut down
\* to its i-th field.
FieldRun(i) == validate(before, data, <<schema[i]>>)

\* The fields of the schema that the data violates, each taken alone.
ViolatingFields ==
    { i \in 1..Len(schema) : FieldRun(i).status = "ValidationError" }

\* C5: one run reports an error for every violating field, so it reports
\* at least as many errors as there are violating fields.
C5_AllErrorsCollected ==
    runs = 1 => Len(outcome.errors) >= Cardinality(ViolatingFields)

IsUnion(type) == type.t = "str" /\ \E i \in 1..Len(type.v) : type.v[i] = "|"

\* The run on the same objects against the i-th field with its union type
\* replaced by the subtype t.
SubtypeRun(i, t) ==
    validate(before, data, <<[schema[i] EXCEPT !.v.type = StrV(t)]>>)

\* The i-th field is of a union type and the data validates with no error
\* against one of its subtypes.
SomeSubtypeAccepts(i) ==
    /\ IsUnion(schema[i].v.type)
    /\ \E j \in 1..Len(UnionTypes(schema[i].v.type.v)) :
          SubtypeRun(i, UnionTypes(schema[i].v.type.v)[j]).status = "ok"

UnionMismatch ==
    /\ Len(schema) = 1
    /\ IsUnion(schema[1].v.type)
    /\ HasKey(before[data.v], schema[1].k)
    /\ \A j \in 1..Len(UnionTypes(schema[1].v.type.v)) :
          SubtypeRun(1, UnionTypes(schema[1].v.type.v)[j]).status = "ValidationError"

\* C7: a value that matches no subtype of its union gives exactly one
\* error, which says "does not match any allowed types" and names the
\* value's path.
C7_UnionMismatchOneError ==
    (runs = 1 /\ UnionMismatch) =>
        /\ Len(outcome.errors) = 1
        /\ Contains(ErrorTexts[1],
                    <<"d", "o", "e", "s", " ", "n", "o", "t", " ", "m", "a", "t", "c",
                      "h", " ", "a", "n", "y", " ", "a", "l", "l", "o", "w", "e", "d",
                      " ", "t", "y", "p", "e", "s">>)
        /\ Contains(ErrorTexts[1], schema[1].k)

(***************************************************************************)
(* Applying defaults: the validator writes the defaults into the data it   *)
(* validates, so the data after a run is the data with defaults applied.   *)
(***************************************************************************)
\* The data as a plain value, in the heap h.
DataIn(h) == Deref(h, data)

FirstRun == validate(original, data, schema)

\* C8: applying defaults to data that already had them applied changes
\* nothing.
C8_DefaultsIdempotent ==
    (runs = 2 /\ FirstRun.status = "ok" /\ outcome.status = "ok") =>
        PyEq(DataIn(heap), DataIn(before))

\* e1 and e2 are the same error.
SameError(e1, e2) == e1.text = e2.text /\ MessageText(e1) = MessageText(e2)

\* C9: validating the empty dict with its defaults applied reports no error
\* that validating the empty dict does not report.
C9_DefaultsAddNoError ==
    (runs = 2 /\ original[data.v] = <<>>) =>
        \A i \in 1..Len(outcome.errors) :
            \E j \in 1..Len(ErrorsOf(FirstRun)) :
                SameError(outcome.errors[i], ErrorsOf(FirstRun)[j])

\* Every path of x exists in y and holds the same value there.
RECURSIVE Preserved(_, _)
Preserved(x, y) ==
    IF x.t = "dict"
    THEN /\ y.t = "dict"
         /\ \A i \in 1..Len(x.v) :
               /\ HasKey(y.v, x.v[i].k)
               /\ Preserved(x.v[i].v, GetKey(y.v, x.v[i].k))
    ELSE PyEq(x, y)

\* C10: a run never changes or removes a value the data held before it,
\* whatever defaults the schema declares.
C10_PresentValuesKept ==
    runs >= 1 => Preserved(DataIn(before), DataIn(heap))

\* A run wrote a default into the data while the data held, for another
\* field, a value that differs from the default declared for that field.
C10_Witness ==
    /\ runs = 1
    /\ outcome.status = "ok"
    /\ Len(heap[data.v]) > Len(before[data.v])
    /\ \E i \in 1..Len(schema) :
          /\ schema[i].v.has_default
          /\ HasKey(before[data.v], schema[i].k)
          /\ ~PyEq(Deref(before, GetKey(before[data.v], schema[i].k)),
                   Deref(before, schema[i].v.default))

\* The default a schema node declares, as a plain value, as the schema held
\* it before the first run.
DefaultOf(def) == Deref(original, def.default)

\* The entries x1 are the entries x0 with the defaults of the fields defs
\* filled in: an absent field with a default holds its default, and when
\* that default is the container default of a structured object, the
\* object holds the keys of the container default and, for the keys the
\* container default does not set, the defaults of its fields; a present
\* structured object has its absent fields filled the same way.
RECURSIVE DefaultsFilled(_, _, _)
DefaultsFilled(defs, x0, x1) ==
    \A i \in 1..Len(defs) :
        LET k == defs[i].k
            d == defs[i].v
        IN  IF ~HasKey(x0, k)
            THEN d.has_default =>
                   /\ HasKey(x1, k)
                   /\ IF d.has_fields /\ DefaultOf(d).t = "dict"
                      THEN /\ Preserved(DefaultOf(d), GetKey(x1, k))
                           /\ DefaultsFilled(d.fields, DefaultOf(d).v, GetKey(x1, k).v)
                      ELSE PyEq(GetKey(x1, k), DefaultOf(d))
            ELSE (d.has_fields /\ GetKey(x0, k).t = "dict") =>
                   /\ HasKey(x1, k)
                   /\ GetKey(x1, k).t = "dict"
                   /\ DefaultsFilled(d.fields, GetKey(x0, k).v, GetKey(x1, k).v)

\* C11: after a run without error, an absent structured object holds its
\* container default with the gaps filled from the per-field defaults, and
\* a present one has its absent fields filled from the per-field defaults.
C11_ContainerAndFieldDefaults ==
    (runs = 1 /\ outcome.status = "ok") =>
        DefaultsFilled(schema, DataIn(original).v, DataIn(heap).v)

\* In the entries x1, which a run made of the entries x0, no field of defs
\* that was absent and has no default of its own has appeared, at any depth;
\* h is the heap the run started from.
RECURSIVE NothingSynthesized(_, _, _, _)
NothingSynthesized(h, defs, x0, x1) ==
    \A i \in 1..Len(defs) :
        LET k == rstrip(defs[i].k, Multiplicities)
            d == defs[i].v
        IN  IF ~HasKey(x0, k)
            THEN IF ~d.has_default THEN ~HasKey(x1, k)
                 ELSE (d.has_fields /\ HasKey(x1, k) /\ GetKey(x1, k).t = "dict"
                         /\ d.default.t = "dict") =>
                      NothingSynthesized(h, d.fields, Deref(h, d.default).v, GetKey(x1, k).v)
            ELSE (d.has_fields /\ GetKey(x0, k).t = "dict" /\ HasKey(x1, k)
                    /\ GetKey(x1, k).t = "dict") =>
                 NothingSynthesized(h, d.fields, GetKey(x0, k).v, GetKey(x1, k).v)

RECURSIVE ObjectsOf(_, _)
ObjectsOf(h, value) ==
    IF value.t = "dict"
    THEN {value.v} \cup
         UNION { ObjectsOf(h, h[value.v][i].v) : i \in 1..Len(h[value.v]) }
    ELSE {}

\* The dict objects reachable from the defaults stored in the schema nodes defs.
RECURSIVE SchemaObjects(_, _)
SchemaObjects(h, defs) ==
    UNION { ObjectsOf(h, defs[i].v.default) \cup SchemaObjects(h, defs[i].v.fields) :
              i \in 1..Len(defs) }

\* Every default stored in the schema nodes defs is the same in h1 as in h0.
RECURSIVE DefaultsUnchanged(_, _, _)
DefaultsUnchanged(h0, h1, defs) ==
    \A i \in 1..Len(defs) :
        /\ PyEq(Deref(h1, defs[i].v.default), Deref(h0, defs[i].v.default))
        /\ DefaultsUnchanged(h0, h1, defs[i].v.fields)

\* C13: a run leaves the caller's data and the schema with its stored
\* defaults unchanged, and the data shares no dict with the schema.
C13_InputsNotMutated ==
    runs >= 1 =>
        /\ PyEq(DataIn(heap), DataIn(before))
        /\ DefaultsUnchanged(original, heap, schema)
        /\ ObjectsOf(heap, data) \cap SchemaObjects(heap, schema) = {}

(***************************************************************************)
(* Missing fields                                                          *)
(***************************************************************************)
\* The keys the schema nodes defs declare without multiplicity, without
\* 'optional' and without 'default' that the dict object id of h, or a dict
\* below it that the schema describes, does not hold.
RECURSIVE MissingRequired(_, _, _)
MissingRequired(h, defs, id) ==
    UNION { LET k == defs[i].k
                d == defs[i].v
            IN  IF k[Len(k)] \in Multiplicities THEN {}
                ELSE IF ~HasKey(h[id], k)
                     THEN IF d.optional \/ d.has_default THEN {} ELSE {k}
                ELSE IF d.has_fields /\ GetKey(h[id], k).t = "dict"
                     THEN MissingRequired(h, d.fields, GetKey(h[id], k).v)
                ELSE {}
          : i \in 1..Len(defs) }

\* The last run raised "Missing required field" for the key k.
ReportsMissing(k) ==
    /\ outcome.status = "ValidationError"
    /\ Len(outcome.errors) = 1
    /\ outcome.errors[1].text \in {"Missing required field: {field}",
                                   "Missing required field: {clean_key}"}
    /\ outcome.errors[1].args[1] = k

AllKeys == { LevelKey(i) : i \in 1..Len(LevelKeys) }

RECURSIVE ObjectsMet(_, _, _)
ObjectsMet(x, type, path) ==
    IF x.t # "dict" \/ type.kind # "object" THEN {}
    ELSE {[path |-> path, entries |-> x.v, type |-> type]} \cup
         UNION { IF HasKey(x.v, type.fields[i].k)
                 THEN ObjectsMet(GetKey(x.v, type.fields[i].k), type.fields[i].v,
                                 Append(path, type.fields[i].k))
                 ELSE {}
               : i \in 1..Len(type.fields) }

ReportsUnknownFields(path) ==
    \E i \in 1..Len(svErrors) :
        svErrors[i].code = "contains unknown fields" /\ svErrors[i].path = path

HasUndeclaredKey(o) ==
    \E i \in 1..Len(o.entries) : ~HasKey(o.type.fields, o.entries[i].k)

\* C15: an object with a key its schema does not declare is reported exactly
\* when the validator is strict, the object has ext=false and it is not
\* untyped.
C15_UnknownFieldsStrictExt ==
    pc = "validated" =>
        \A o \in ObjectsMet(svData, svSchema, <<>>) :
            ReportsUnknownFields(o.path)
                <=> (HasUndeclaredKey(o) /\ svStrict /\ ~o.type.ext /\ ~o.type.untyped)

\* A strict validator reports the undeclared key of a nested object with
\* ext=false inside an object with ext=true that has one too.
C15_Witness ==
    /\ pc = "validated"
    /\ svStrict
    /\ svSchema.ext
    /\ \E o \in ObjectsMet(svData, svSchema, <<>>) :
          /\ o.path # <<>>
          /\ HasUndeclaredKey(o)
          /\ ~o.type.ext /\ ~o.type.untyped
          /\ ReportsUnknownFields(o.path)
    /\ ExtraFields(svData.v, svSchema.fields) # {}
    /\ ~ReportsUnknownFields(<<>>)

(***************************************************************************)
(* Key order                                                               *)
(***************************************************************************)
\* The caller that loads, changes and dumps, and the caller of the
\* validator, side by side.
SpecOrder == (InitEdit \/ InitValidator) /\ [][NextEdit \/ NextValidator]_vars

KeysOf(entries) == [i \in 1..Len(entries) |-> entries[i].k]

\* The keys of the items of an ObjectNode, each at its first occurrence.
RECURSIVE FirstOccurrences(_, _)
FirstOccurrences(items, seen) ==
    IF items = <<>> THEN <<>>
    ELSE IF items[1].key \in seen THEN FirstOccurrences(Tail(items), seen)
    ELSE <<items[1].key>> \o FirstOccurrences(Tail(items), seen \cup {items[1].key})

\* The value node of the last item of the ObjectNode items with the key k.
LastValueNode(items, k) ==
    items[Max({ i \in 1..Len(items) : items[i].key = k })].value_node

\* Every dict of the value x holds its keys in the order of the node's items.
RECURSIVE InSourceOrder(_, _)
InSourceOrder(node, x) ==
    CASE node.kind = "DocumentNode" -> InSourceOrder(node.data, x)
      [] node.kind = "ObjectNode" ->
            /\ x.t = "dict"
            /\ KeysOf(x.v) = FirstOccurrences(node.items, {})
            /\ \A i \in 1..Len(x.v) :
                  InSourceOrder(LastValueNode(node.items, x.v[i].k), x.v[i].v)
      [] node.kind = "ListNode" ->
            /\ x.t = "list"
            /\ Len(x.v) = Len(node.elements)
            /\ \A i \in 1..Len(x.v) : InSourceOrder(node.elements[i], x.v[i])
      [] OTHER -> TRUE

\* In every dict of y that x has too, the keys x had stand in the order
\* they had in x, before every key that x did not have.
RECURSIVE OrderKept(_, _)
OrderKept(x, y) ==
    (x.t = "dict" /\ y.t = "dict") =>
        /\ SelectSeq(KeysOf(y.v), LAMBDA k : HasKey(x.v, k))
             = SelectSeq(KeysOf(x.v), LAMBDA k : HasKey(y.v, k))
        /\ \A i, j \in 1..Len(y.v) :
              (i < j /\ HasKey(x.v, y.v[j].k)) => HasKey(x.v, y.v[i].k)
        /\ \A i \in 1..Len(y.v) :
              HasKey(x.v, y.v[i].k) => OrderKept(GetKey(x.v, y.v[i].k), y.v[i].v)

\* C16: load returns every object with its keys in source order; a change
\* of the caller and a run of the validator leave the keys that were there
\* in their order and put a new key after them.
C16_KeyOrder ==
    [][ /\ (pc = "start" /\ pc' = "loaded" /\ loaded'.status = "ok") =>
               InSourceOrder(parse_document(tokenize(source).tokens).node, loaded'.value)
        /\ (edits' = edits + 1) => OrderKept(loaded.value, loaded'.value)
        /\ (runs' = runs + 1) => OrderKept(Deref(heap, data), Deref(heap', data))
      ]_vars

\* b and a loaded in source order, c added after them and b reassigned in
\* place.
C16_Witness ==
    /\ pc = "loaded"
    /\ edits = 2
    /\ loaded.value.t = "dict"
    /\ KeysOf(loaded.value.v) = << <<"b">>, <<"a">>, <<"c">> >>
    /\ PyEq(GetKey(loaded.value.v, <<"b">>), IntV(7))
    /\ PyEq(GetKey(loaded.value.v, <<"c">>), IntV(7))

C18_BareScalarRejected ==
    (pc = "loaded" /\ source \in BareScalars) => loaded.status = "FTMLParseError"

\* The text of a root dict as lines "key = value" with newlines between
\* them, each value written as the serializer writes it.
RootLines(entries) ==
    JoinWith([i \in 1..Len(entries) |->
                 entries[i].k \o <<" ", "=", " ">> \o core_dump(entries[i].v)],
             <<NL>>)

\* C19: dump writes a root dict as lines "key = value" separated by
\* newlines only, without a comma after a root entry.
C19_RootLinesNoComma ==
    (pc = "dumped" /\ loaded.value.t = "dict" /\ loaded.value.v # <<>>) =>
        dumped = RootLines(loaded.value.v)

(***************************************************************************)
(* Dumping changed data                                                    *)
(***************************************************************************)
\* The inline comments of the root items of the document whose key the
\* dict entries still hold.
SurvivingComments(text, entries) ==
    LET items == parse_document(tokenize(text).tokens).node.data.items
    IN  { items[i].inline_comment.v :
            i \in { j \in 1..Len(items) :
                      /\ items[j].inline_comment.t = "str"
                      /\ HasKey(entries, items[j].key) } }

\* The dumped text of changed data loads as the changed data.
DumpsChangedData ==
    (pc = "done" /\ edits >= 1) =>
        reloaded.status = "ok" /\ PyEq(reloaded.value, loaded.value)

\* C20: after the caller's changes dump writes the keys and values of the
\* changed data, and the comment of every key that is still there.
C20_ChangedDataKeepsComments ==
    (pc = "done" /\ edits >= 1) =>
        /\ reloaded.status = "ok"
        /\ PyEq(reloaded.value, loaded.value)
        /\ \A c \in SurvivingComments(source, loaded.value.v) : Contains(dumped, c)

(***************************************************************************)
(* Comments in the AST                                                     *)
(***************************************************************************)
\* The AST the parser builds of the text.
AstOf(text) == parse_document(tokenize(text).tokens).node

\* The comments in the slots of the node itself, slot by slot.
OwnComments(node) ==
    node.leading_comments
    \o (IF node.inline_comment.t = "str" THEN <<node.inline_comment.v>> ELSE <<>>)
    \o node.trailing_comments

\* The comments in the slots of the node and of every node below it.
RECURSIVE AllComments(_)
RECURSIVE CommentsOfNodes(_)
CommentsOfNodes(nodes) ==
    IF nodes = <<>> THEN <<>>
    ELSE AllComments(nodes[1]) \o CommentsOfNodes(Tail(nodes))

AllComments(node) ==
    OwnComments(node) \o
    CASE node.kind = "DocumentNode" -> AllComments(node.data)
      [] node.kind = "KeyValueNode" -> AllComments(node.value_node)
      [] node.kind = "ObjectNode"   -> CommentsOfNodes(node.items)
      [] node.kind = "ListNode"     -> CommentsOfNodes(node.elements)
      [] OTHER                      -> <<>>

InSeq(x, seq) == \E i \in 1..Len(seq) : seq[i] = x

\* The value node of the root key a.
ValueOfA(text) == AstOf(text).data.items[1].value_node

\* C21: a comment after the last child of an object or list is in that
\* container's end slot, and a comment after the last root pair in the end
\* slot of the document's root.
C21_EndCommentsKept ==
    (pc = "loaded" /\ loaded.status = "ok" /\ source[1] = "{") =>
        /\ Contains(source, <<"#", "e", NL>>) =>
              InSeq(<<"e">>, AstOf(source).trailing_comments
                               \o AstOf(source).data.trailing_comments)
        /\ Contains(source, <<"#", "l", NL>>) =>
              InSeq(<<"l">>, ValueOfA(source).trailing_comments)
        /\ Contains(source, <<"#", "n", NL>>) =>
              InSeq(<<"n">>, ValueOfA(source).trailing_comments)

\* C22: no comment of the source is in two comment slots of the AST.  The
\* comments of a document are pairwise distinct.
C22_CommentInOneSlot ==
    (pc = "loaded" /\ loaded.status = "ok") =>
        \A i, j \in 1..Len(AllComments(AstOf(source))) :
            AllComments(AstOf(source))[i] = AllComments(AstOf(source))[j] => i = j

\* A document whose comments a, b, i and e are all there, loaded with its
\* inline comment i in the AST.
C22_Witness ==
    /\ pc = "loaded" /\ loaded.status = "ok"
    /\ Contains(source, <<"#", "a", NL>>) /\ Contains(source, <<"#", "e", NL>>)
    /\ InSeq(<<"i">>, AllComments(AstOf(source)))

(***************************************************************************)
(* Defaults of the schema                                                  *)
(***************************************************************************)
\* Every default stored in the schema nodes defs passes the type check of its
\* own node.
RECURSIVE DefaultsValid(_, _)
DefaultsValid(h, defs) ==
    \A i \in 1..Len(defs) :
        /\ defs[i].v.has_default =>
               _check_type(Deref(h, defs[i].v.default), defs[i].v.type).status = "ok"
        /\ DefaultsValid(h, defs[i].v.fields)

\* C24: every default of a schema the validator was made with and has run on
\* validates against the type of its node.
C24_StoredDefaultsValid ==
    runs >= 1 => DefaultsValid(original, schema)

(***************************************************************************)
(* bool and int                                                            *)
(***************************************************************************)
\* The value of the field a the run was made on, and the subtypes of its type.
ValueOfFieldA == original[data.v][1].v
SubtypesOfFieldA == UnionTypes(schema[1].v.type.v)

\* Every subtype of the field a is one of the types.
SubtypesAmong(types) ==
    \A j \in 1..Len(SubtypesOfFieldA) : SubtypesOfFieldA[j] \in types

\* C28: a bool is rejected by a type with no bool subtype, an int by a type
\* with no int subtype.
C28_BoolIntDisjoint ==
    runs >= 1 =>
        /\ (ValueOfFieldA.t = "bool" /\ SubtypesAmong({T_int, T_str, T_null}))
              => outcome.status = "ValidationError"
        /\ (ValueOfFieldA.t = "int" /\ SubtypesAmong({T_bool, T_str, T_null}))
              => outcome.status = "ValidationError"

\* The half of C28 that holds: an int is rejected by a type with no int subtype.
IntNeverBool ==
    (runs >= 1 /\ ValueOfFieldA.t = "int" /\ SubtypesAmong({T_bool, T_str, T_null}))
        => outcome.status = "ValidationError"

(***************************************************************************)
(* Empty documents, trailing tokens, termination                           *)
(***************************************************************************)
\* C26: the empty document, a document of whitespace and newlines and a
\* document of comments load as the empty value.
C26_EmptyDocumentLoads ==
    (pc = "loaded" /\ source \in EmptyDocuments) =>
        loaded.status = "ok" /\ PyEq(loaded.value, DictV(<<>>))

\* The state of the tokenizer loop on the text after as many passes as the
\* text has characters, and one for EOF.
LoopAfterAllPasses(text) ==
    tokenize_passes(text, [err |-> FALSE, done |-> FALSE, pos |-> 1, tokens |-> <<>>],
                    Len(text) + 1)

\* Every token read in the text ends after the position it was read at.
TokenizerAdvances(text) ==
    \A p \in 1..Len(text) :
        next_token(text, p).err \/ next_token(text, p).pos > p

\* Every value and every key-value pair parsed at a position of the tokens
\* ends after that position or raises.
ParserAdvances(tokens) ==
    \A p \in 1..Len(tokens) :
        /\ parse_value(tokens, p).err \/ parse_value(tokens, p).pos > p
        /\ parse_key_value(tokens, p).err \/ parse_key_value(tokens, p).pos > p

\* C29: the tokenizer loop has ended after one pass per character, every
\* token and every parsed construct consumes something or raises, and load
\* ends with a value or a parse error.
C29_LoadTerminates ==
    /\ LoopAfterAllPasses(source).done
    /\ TokenizerAdvances(source)
    /\ ~tokenize(source).err => ParserAdvances(tokenize(source).tokens)
    /\ pc = "loaded" => loaded.status \in {"ok", "FTMLParseError"}

\* A document of several tokens with whitespace between them was loaded; one
\* where the parser raised inside an object was loaded.
C29_Witness ==
    /\ pc = "loaded"
    /\ source \in MalformedDocuments
    /\ Len(tokenize(source).tokens) >= 4
    /\ loaded.status = "FTMLParseError"

\* The tokens left after the root value of the text.
TokensAfterRoot(text) ==
    LET tokens == tokenize(text).tokens
        doc == parse_document(tokens)
    IN  IF tokenize(text).err \/ doc.err THEN <<>>
        ELSE SubSeq(tokens, doc.pos, Len(tokens))

HasLeftOverToken(text) ==
    \E i \in 1..Len(TokensAfterRoot(text)) :
        TokensAfterRoot(text)[i].type \notin {"WHITESPACE", "NEWLINE", "COMMENT", "EOF"}

\* C30: a token other than whitespace, newline or comment left after the
\* root value makes load raise a parse error.
C30_LeftOverTokensRejected ==
    (pc = "loaded" /\ HasLeftOverToken(source)) => loaded.status = "FTMLParseError"

(***************************************************************************)
(* The version check                                                       *)
(***************************************************************************)
\* The version d is greater than e: major, then minor, then the stage with
\* release > rc > b > a, then the counter.
Newer(d, e) ==
    \/ d.major > e.major
    \/ d.major = e.major /\ d.minor > e.minor
    \/ d.major = e.major /\ d.minor = e.minor /\ StageRank(d.stage) > StageRank(e.stage)
    \/ d.major = e.major /\ d.minor = e.minor /\ d.stage = e.stage /\ d.counter > e.counter

\* The document holds the version d as its ftml_version and the engine is
\* of version e.
VersionsAre(d, e) ==
    /\ HasKey(versionData.v, FTML_VERSION)
    /\ GetKey(versionData.v, FTML_VERSION) = StrV(FormatVersion(d))
    /\ engineVersion = FormatVersion(e)

\* C23: with check_version=true load raises a version error exactly when
\* the document's version is greater than the engine's; with
\* check_version=false it returns the map with its ftml_version.
C23_VersionGate ==
    pc = "gated" =>
        \A d \in Versions, e \in Versions :
            VersionsAre(d, e) =>
                IF checkVersionArg
                THEN (gateOutcome.status = "FTMLVersionError") <=> Newer(d, e)
                ELSE /\ gateOutcome.status = "ok"
                     /\ PyEq(gateOutcome.value, versionData)
                     /\ HasKey(gateOutcome.value.v, FTML_VERSION)

\* A document one stage ahead of the engine, with a smaller counter, was
\* refused.
C23_Witness ==
    /\ pc = "gated"
    /\ checkVersionArg
    /\ gateOutcome.status = "FTMLVersionError"
    /\ \E d \in Versions, e \in Versions :
          /\ VersionsAre(d, e)
          /\ d.major = e.major /\ d.minor = e.minor
          /\ StageRank(d.stage) > StageRank(e.stage)
          /\ d.counter < e.counter

(***************************************************************************)
(* The schema tree                                                         *)
(***************************************************************************)
\* The types directly below the node.
ChildTypes(node) ==
    node.item_type \o node.subtypes \o [i \in 1..Len(node.fields) |-> node.fields[i].v]

\* No union at or below the node has a union as a subtype.
RECURSIVE UnionsFlat(_)
UnionsFlat(node) ==
    /\ \A i \in 1..Len(node.subtypes) : node.subtypes[i].kind # "union"
    /\ \A i \in 1..Len(ChildTypes(node)) : UnionsFlat(ChildTypes(node)[i])

\* The type expression is the atoms joined by |, two or more.
IsUnionOf(atoms) ==
    Len(atoms) >= 2 /\ spTokens = JoinWith(atoms, <<Pipe>>)

\* C27: in the tree of a parsed type expression no subtype of a union is a
\* union, and the subtypes of the union written atom | atom | ... are the
\* types of its atoms in the order written.
C27_UnionsFlattened ==
    (pc = "schema parsed" /\ spResult.status = "ok") =>
        /\ UnionsFlat(spResult.value)
        /\ \A atoms \in AtomSeqs :
              IsUnionOf(atoms) =>
                  /\ spResult.value.kind = "union"
                  /\ Len(spResult.value.subtypes) = Len(atoms)
                  /\ \A i \in 1..Len(atoms) :
                        spResult.value.subtypes[i] = parse_type_atom(atoms[i], 1).node

\* A union of three atoms, one of them with a union inside, was parsed.
C27_Witness ==
    /\ pc = "schema parsed"
    /\ spResult.status = "ok"
    /\ Len(spResult.value.subtypes) = 3
    /\ \E i \in 1..3 : spResult.value.subtypes[i].kind = "list"

\* The type expression is string literals joined by |.
LiteralsOf(tokens) == [i \in 1..((Len(tokens) + 1) \div 2) |-> tokens[2 * i - 1].value.v]

IsLiteralUnion(tokens) ==
    /\ Len(tokens) % 2 = 1
    /\ \A i \in 1..Len(tokens) :
          tokens[i].type = (IF i % 2 = 1 THEN "STRING" ELSE "PIPE")

\* C25: a type expression of string literals joined by | parses, each
\* literal as the scalar str with the enum of that literal alone.
C25_LiteralTypeAtoms ==
    (pc = "schema parsed" /\ IsLiteralUnion(spTokens)) =>
        /\ spResult.status = "ok"
        /\ LET types == IF Len(spTokens) = 1 THEN <<spResult.value>>
                         ELSE spResult.value.subtypes
           IN  /\ Len(types) = Len(LiteralsOf(spTokens))
               /\ \A i \in 1..Len(types) :
                     types[i] = ScalarTypeNode(T_str, <<LiteralsOf(spTokens)[i]>>)

====
